---------------------------- MODULE Spec2Model ----------------------------
(***************************************************************************)
(* Model of the extraction / reconciliation / write-back engine of         *)
(* drug_comparison.py.                                                     *)
(*                                                                         *)
(* Text is modelled by TLA+ strings, handled character by character with   *)
(* Len, SubSeq and \o exactly as the Python code handles str values.       *)
(* A spreadsheet cell is a record [t, n, s]: t = "nan" (blank), "num"      *)
(* (number n) or "str" (text s).                                           *)
(***************************************************************************)
EXTENDS Integers, Sequences, FiniteSets, TLC

VARIABLES
    (* normalize_drug_name called on a label, then on its own result *)
    name, canonical, npc,
    (* parse_details_sheet: the loaded sheet, the position in the function,  *)
    (* its locals, the classification of the rows walked so far, its result  *)
    df_raw, ppc, header_row, type_col_idx, i, current_indication,
    current_indication_fb, rows, classified, result,
    (* fill_details_sheet_to_excel: the target file and its content before  *)
    (* the call, the temporary file, the argument table, the coordinate     *)
    (* index, the workbook in memory, the loop cursor over details_df.index,*)
    (* the count, the position in the function, what the call ended with    *)
    target, target0, tmp_file, details_df, row_map, col_map, wb, key_pos,
    written, fpc, outcome,
    (* compare_details / compare_drugs: the two tables, which function is   *)
    (* called and whether it has returned, what it returned or raised       *)
    old_df, new_df, cpc, comparison

cmpVars == <<old_df, new_df, cpc, comparison>>
normVars == <<name, canonical, npc>>
parseVars == <<df_raw, ppc, header_row, type_col_idx, i, current_indication,
               current_indication_fb, rows, classified, result>>
fillVars == <<target, target0, tmp_file, details_df, row_map, col_map, wb, key_pos,
              written, fpc, outcome>>
vars == <<normVars, parseVars, fillVars, cmpVars>>

---------------------------------------------------------------------------
(* Python str operations                                                   *)

Min(a, b) == IF a < b THEN a ELSE b
Max(a, b) == IF a < b THEN b ELSE a

\* Python None where the code uses Optional[str]; no label is this string.
None == "<None>"

CharAt(s, k) == SubSeq(s, k, k)

\* sub in s
Contains(sub, s) ==
    \E k \in 0..(Len(s) - Len(sub)) : SubSeq(s, k + 1, k + Len(sub)) = sub

\* s.startswith(p)
StartsWith(s, p) == Len(p) <= Len(s) /\ SubSeq(s, 1, Len(p)) = p

\* s[:n]
Prefix(s, n) == SubSeq(s, 1, Min(n, Len(s)))

Whitespace == {" "}

RECURSIVE LStrip(_)
LStrip(s) ==
    IF Len(s) > 0 /\ CharAt(s, 1) \in Whitespace THEN LStrip(Tail(s)) ELSE s

RECURSIVE RStrip(_)
RStrip(s) ==
    IF Len(s) > 0 /\ CharAt(s, Len(s)) \in Whitespace
    THEN RStrip(SubSeq(s, 1, Len(s) - 1))
    ELSE s

\* s.strip()
Strip(s) == RStrip(LStrip(s))

UpperChars == "ABCDEFGHIJKLMNOPQRSTUVWXYZ"
LowerChars == "abcdefghijklmnopqrstuvwxyz"

LowerTable ==
    [c \in { CharAt(UpperChars, k) : k \in 1..Len(UpperChars) } |->
        CharAt(LowerChars, CHOOSE k \in 1..Len(UpperChars) : CharAt(UpperChars, k) = c)]

LowerChar(c) == IF c \in DOMAIN LowerTable THEN LowerTable[c] ELSE c

RECURSIVE Lower(_)
\* s.lower()
Lower(s) == IF Len(s) = 0 THEN "" ELSE LowerChar(CharAt(s, 1)) \o Lower(Tail(s))

RECURSIVE Replace(_, _, _)
\* s.replace(old, new), old non-empty: leftmost non-overlapping occurrences
Replace(s, old, new) ==
    IF Len(s) < Len(old) THEN s
    ELSE IF SubSeq(s, 1, Len(old)) = old
         THEN new \o Replace(SubSeq(s, Len(old) + 1, Len(s)), old, new)
         ELSE CharAt(s, 1) \o Replace(Tail(s), old, new)

---------------------------------------------------------------------------
(* Name Normalizer                                                         *)

AliasPrefixLen == 20

\* the table with its last entry mapping to a variant spelling, itself an
\* alias, instead of a canonical name
DRUG_ALIASES_to_variant == <<
    [alias |-> "Other. (somatrogon (NGENLA) 60mg/1.2mL PFP 1's)", canonical |-> "Ngenla (Pfizer)"],
    [alias |-> "Other. (somatrogon (NGENLA)",                      canonical |-> "Ngenla (Pfizer)"],
    [alias |-> "Other, please specify",                            canonical |-> None],
    [alias |-> "Other",                                            canonical |-> "Other. (somatrogon (NGENLA)"] >>

\* DRUG_ALIASES in insertion order (the order dict.items() yields)
DRUG_ALIASES == <<
    [alias |-> "Other. (somatrogon (NGENLA) 60mg/1.2mL PFP 1's)", canonical |-> "Ngenla (Pfizer)"],
    [alias |-> "Other. (somatrogon (NGENLA)",                      canonical |-> "Ngenla (Pfizer)"],
    [alias |-> "Other, please specify",                            canonical |-> None],
    [alias |-> "Other",                                            canonical |-> "Ngenla (Pfizer)"] >>

AliasMatches(a, s) == Contains(a, s) \/ StartsWith(s, Prefix(a, AliasPrefixLen))

\* the loop without its return: the last matching entry from k on decides
FirstAliasFrom_last_match(s, k) ==
    LET hits == { n \in k..Len(DRUG_ALIASES) : AliasMatches(DRUG_ALIASES[n].alias, s) } IN
    IF hits = {} THEN (IF s # "" THEN s ELSE None)
    ELSE DRUG_ALIASES[CHOOSE n \in hits : \A m \in hits : m <= n].canonical

RECURSIVE FirstAliasFrom(_, _)
FirstAliasFrom(s, k) ==
    IF k > Len(DRUG_ALIASES) THEN (IF s # "" THEN s ELSE None)
    ELSE IF AliasMatches(DRUG_ALIASES[k].alias, s) THEN DRUG_ALIASES[k].canonical
    ELSE FirstAliasFrom(s, k + 1)

normalize_drug_name(raw) == FirstAliasFrom(Strip(raw), 1)

---------------------------------------------------------------------------
(* Cells and their coercions                                               *)

NaN == [t |-> "nan", n |-> 0, s |-> ""]
Num(n) == [t |-> "num", n |-> n, s |-> ""]
Txt(s) == [t |-> "str", n |-> 0, s |-> s]

\* pd.isna(val) / pd.notna(val)
isna(c) == c.t = "nan"
notna(c) == ~isna(c)

DigitChars == "0123456789"

RECURSIVE Decimal(_)
Decimal(n) ==
    IF n < 10 THEN CharAt(DigitChars, n + 1)
    ELSE Decimal(n \div 10) \o CharAt(DigitChars, (n % 10) + 1)

\* str(val)
PyStr(c) ==
    CASE c.t = "nan" -> "nan"
      [] c.t = "num" -> IF c.n < 0 THEN "-" \o Decimal(0 - c.n) ELSE Decimal(c.n)
      [] OTHER       -> c.s

IsDigit(ch) == \E k \in 1..Len(DigitChars) : CharAt(DigitChars, k) = ch
DigitValue(ch) == (CHOOSE k \in 1..Len(DigitChars) : CharAt(DigitChars, k) = ch) - 1

\* the texts float() accepts: here the unsigned decimal integers, possibly
\* surrounded by blanks (float() strips them)
IsFloatText(s) ==
    LET u == Strip(s) IN Len(u) > 0 /\ \A k \in 1..Len(u) : IsDigit(CharAt(u, k))

RECURSIVE DigitsValue(_)
DigitsValue(u) ==
    IF Len(u) = 0 THEN 0
    ELSE 10 * DigitsValue(SubSeq(u, 1, Len(u) - 1)) + DigitValue(CharAt(u, Len(u)))

FloatOfText(s) == DigitsValue(Strip(s))

_is_numeric_cell(val) ==
    IF isna(val) THEN FALSE
    ELSE IF val.t = "num" THEN TRUE
    ELSE IsFloatText(Strip(PyStr(val)))

\* a blank cell read as 1
FloatOrZero_blank_as_one(val) ==
    IF isna(val) THEN 1
    ELSE IF val.t = "num" THEN val.n
    ELSE IF IsFloatText(val.s) THEN FloatOfText(val.s)
    ELSE 0

\* try: float(val) if pd.notna(val) else 0.0 / except (ValueError, TypeError): 0.0
FloatOrZero(val) ==
    IF isna(val) THEN 0
    ELSE IF val.t = "num" THEN val.n
    ELSE IF IsFloatText(val.s) THEN FloatOfText(val.s)
    ELSE 0

---------------------------------------------------------------------------
(* Grids: a sheet read with header=None; rows and columns are 0-based as   *)
(* in the code, g[i + 1][j + 1] is df_raw.iloc[i, j].                      *)

NRows(g) == Len(g)
NCols(g) == IF Len(g) = 0 THEN 0 ELSE Len(g[1])
iloc(g, r, j) == g[r + 1][j + 1]

\* df_raw.empty or len(df_raw) < 2
TooSmall(g) == NRows(g) = 0 \/ NCols(g) = 0 \/ NRows(g) < 2

---------------------------------------------------------------------------
(* Section heuristics                                                      *)

_looks_like_indication_section(type_str) ==
    LET s == Lower(Strip(type_str)) IN
    IF s = "" THEN FALSE
    ELSE IF Contains("total patients", s) \/ Contains("unique", s) THEN TRUE
    ELSE IF Contains("growth hormone", s) /\ (Contains("def", s) \/ Contains("ghd", s)) THEN TRUE
    ELSE IF Contains("gestational", s) \/ Contains("sga", s) THEN TRUE
    ELSE IF Contains("syndrome", s) /\ Contains("turner", s) THEN TRUE
    ELSE FALSE

---------------------------------------------------------------------------
(* Table Locator                                                           *)

ScanRows == 25
ScanCols == 10
HeaderCellMaxLen == 50
header_keywords == {"type", "drug", "product", "treatment"}
skip_type_values == {"scope", "time period", "type", "drug", "questionnaire", ""}

IsHeaderCell(c) ==
    LET cell == Lower(Strip(PyStr(c))) IN
    (\E kw \in header_keywords : Contains(kw, cell)) /\ Len(cell) < HeaderCellMaxLen

HeaderHits(g) ==
    { p \in (0..(Min(ScanRows, NRows(g)) - 1)) \X (0..(Min(ScanCols, NCols(g)) - 1)) :
        IsHeaderCell(iloc(g, p[1], p[2])) }

\* the first hit in column-major order
FindHeader_column_major(g) ==
    LET hits == HeaderHits(g) IN
    IF hits = {} THEN [found |-> FALSE, header_row |-> 0, type_col_idx |-> 0]
    ELSE LET p == CHOOSE p \in hits :
                    \A q \in hits : p[2] < q[2] \/ (p[2] = q[2] /\ p[1] <= q[1])
         IN [found |-> TRUE, header_row |-> p[1], type_col_idx |-> p[2]]

\* the two nested loops with their breaks: first hit in row-major order
FindHeader(g) ==
    LET hits == HeaderHits(g) IN
    IF hits = {} THEN [found |-> FALSE, header_row |-> 0, type_col_idx |-> 0]
    ELSE LET p == CHOOSE p \in hits :
                    \A q \in hits : p[1] < q[1] \/ (p[1] = q[1] /\ p[2] <= q[2])
         IN [found |-> TRUE, header_row |-> p[1], type_col_idx |-> p[2]]

\* the labels taken from the sheet's first row whatever the header row is
Headers_of_first_row(g, hr) ==
    [j \in 1..NCols(g) |-> IF notna(g[1][j]) THEN Strip(PyStr(g[1][j])) ELSE ""]

\* headers = [str(h).strip() if pd.notna(h) else "" for h in df_raw.iloc[header_row]]
Headers(g, hr) ==
    [j \in 1..NCols(g) |-> IF notna(g[hr + 1][j]) THEN Strip(PyStr(g[hr + 1][j])) ELSE ""]

---------------------------------------------------------------------------
(* Record tables (DataFrames).  A row is [key, cols, vals, src]: key the   *)
(* index tuple, cols the row dict's metric keys in insertion order, vals   *)
(* the dict, src the sheet row it was read from.  A table is [rows, cols]. *)

\* the characters of the model's labels, in code-point order
CharOrder == " '()+,-./0123456789:ABCDEFGHIJKLMNOPQRSTUVWXYZ_abcdefghijklmnopqrstuvwxyz"
RankTable ==
    [c \in { CharAt(CharOrder, k) : k \in 1..Len(CharOrder) } |->
        CHOOSE k \in 1..Len(CharOrder) : CharAt(CharOrder, k) = c]
CharRank(c) == RankTable[c]

RECURSIVE StrLess(_, _)
\* a < b on str
StrLess(a, b) ==
    IF Len(b) = 0 THEN FALSE
    ELSE IF Len(a) = 0 THEN TRUE
    ELSE IF CharAt(a, 1) = CharAt(b, 1) THEN StrLess(Tail(a), Tail(b))
    ELSE CharRank(CharAt(a, 1)) < CharRank(CharAt(b, 1))

RECURSIVE KeyLess(_, _)
\* a < b on tuples of str
KeyLess(a, b) ==
    IF Len(b) = 0 THEN FALSE
    ELSE IF Len(a) = 0 THEN TRUE
    ELSE IF a[1] = b[1] THEN KeyLess(Tail(a), Tail(b))
    ELSE StrLess(a[1], b[1])

RECURSIVE InsertSorted(_, _)
InsertSorted(sorted, r) ==
    IF sorted = <<>> THEN <<r>>
    ELSE IF KeyLess(r.key, sorted[1].key) THEN <<r>> \o sorted
    ELSE <<sorted[1]>> \o InsertSorted(Tail(sorted), r)

RECURSIVE SortRows(_)
\* sort_index(): stable, by key
SortRows(rs) ==
    IF rs = <<>> THEN <<>>
    ELSE InsertSorted(SortRows(SubSeq(rs, 1, Len(rs) - 1)), rs[Len(rs)])

SeqToSet(q) == { q[k] : k \in 1..Len(q) }

RECURSIVE AppendNew(_, _)
\* q followed by the elements of more that q lacks, in order
AppendNew(q, more) ==
    IF more = <<>> THEN q
    ELSE IF more[1] \in SeqToSet(q) THEN AppendNew(q, Tail(more))
    ELSE AppendNew(Append(q, more[1]), Tail(more))

RECURSIVE UnionCols(_)
UnionCols(rs) ==
    IF rs = <<>> THEN <<>>
    ELSE AppendNew(UnionCols(SubSeq(rs, 1, Len(rs) - 1)), rs[Len(rs)].cols)

\* pd.DataFrame()
EmptyDF == [rows |-> <<>>, cols |-> <<>>]

\* pd.DataFrame(rows).set_index(...): a dict lacking a column reads NaN there
DataFrame(rs) ==
    LET cs == UnionCols(rs) IN
    [rows |-> [k \in 1..Len(rs) |->
                 [key |-> rs[k].key, cols |-> cs, src |-> rs[k].src,
                  vals |-> [c \in SeqToSet(cs) |->
                              IF c \in DOMAIN rs[k].vals THEN rs[k].vals[c] ELSE NaN]]],
     cols |-> cs]

\* df.empty: an axis of length 0
IsEmptyDF(df) == Len(df.rows) = 0 \/ Len(df.cols) = 0

\* df.index as a set, and the rows under one index key
IndexKeys(df) == { df.rows[k].key : k \in 1..Len(df.rows) }
RowsAt(df, key) == { k \in 1..Len(df.rows) : df.rows[k].key = key }

---------------------------------------------------------------------------
(* Section-aware row classifier and record extractor (parse_details_sheet) *)

NumericScanEnd == 6

\* has_numeric: the first metric cell, else the cells type_col_idx + 1 up to
\* min(type_col_idx + 6, ncols) - 1
NumericBearing(g, tc, r) ==
    \/ (tc + 1 < NCols(g) /\ _is_numeric_cell(iloc(g, r, tc + 1)))
    \/ (tc + 1 < NCols(g) /\
        \E j \in (tc + 1)..(Min(tc + NumericScanEnd, NCols(g)) - 1) :
            _is_numeric_cell(iloc(g, r, j)))

\* the columns j > type_col_idx of the sheet that carry a header label
LabelledCols(g, hs, tc) ==
    { j \in (tc + 1)..(Min(Len(hs), NCols(g)) - 1) : hs[j + 1] # "" }

RECURSIVE LabelsFrom(_, _, _)
LabelsFrom(g, hs, j) ==
    IF j >= Min(Len(hs), NCols(g)) THEN <<>>
    ELSE IF hs[j + 1] = "" THEN LabelsFrom(g, hs, j + 1)
    ELSE AppendNew(<<hs[j + 1]>>, LabelsFrom(g, hs, j + 1))

\* the row dict built by the loop over headers: row[h] = float(val) or 0.0,
\* a label met again overwrites the value stored under it
MetricRow(g, hs, tc, r, key) ==
    LET js == LabelledCols(g, hs, tc)
        lastCol(h) == CHOOSE j \in js : hs[j + 1] = h /\ \A k \in js : hs[k + 1] = h => k <= j
    IN [key  |-> key,
        cols |-> LabelsFrom(g, hs, tc + 1),
        vals |-> [h \in { hs[j + 1] : j \in js } |-> Num(FloatOrZero(iloc(g, r, lastCol(h))))],
        src  |-> r]

\* canonical_type is None and type_str == "Other, please specify"
DetailsExcluded(type_str) ==
    normalize_drug_name(type_str) = None /\ type_str = "Other, please specify"

\* type_str = canonical_type if canonical_type else type_str
DetailsTypeKey(type_str) ==
    LET c == normalize_drug_name(type_str) IN
    IF c # None /\ c # "" THEN c ELSE type_str

\* the data-row branch without its test of current_indication
DataRow_without_section_test(g, hr, tc, cur, r, type_str) ==
    IF DetailsExcluded(type_str) THEN [cls |-> "data_excluded", cur |-> cur, emit |-> <<>>]
    ELSE [cls |-> "data", cur |-> cur,
          emit |-> << MetricRow(g, Headers(g, hr), tc, r, <<cur, DetailsTypeKey(type_str)>>) >>]

\* a data row whose label becomes the section of the rows below it
DataRow_label_becomes_section(g, hr, tc, cur, r, type_str) ==
    IF cur = None THEN [cls |-> "data_no_section", cur |-> cur, emit |-> <<>>]
    ELSE IF DetailsExcluded(type_str) THEN [cls |-> "data_excluded", cur |-> cur, emit |-> <<>>]
    ELSE [cls |-> "data", cur |-> type_str,
          emit |-> << MetricRow(g, Headers(g, hr), tc, r, <<cur, DetailsTypeKey(type_str)>>) >>]

\* lines 261-280, the branch taken by a data row: dropped without a section,
\* dropped when excluded, else appended to rows
DataRow(g, hr, tc, cur, r, type_str) ==
    IF cur = None THEN [cls |-> "data_no_section", cur |-> cur, emit |-> <<>>]
    ELSE IF DetailsExcluded(type_str) THEN [cls |-> "data_excluded", cur |-> cur, emit |-> <<>>]
    ELSE [cls |-> "data", cur |-> cur,
          emit |-> << MetricRow(g, Headers(g, hr), tc, r, <<cur, DetailsTypeKey(type_str)>>) >>]

\* the loop body with the section test run after the data branch instead of
\* in its else: a data row whose label looks like a section also sets cur
PrimaryRow_section_test_unguarded(g, hr, tc, cur, r) ==
    LET type_val == iloc(g, r, tc)
        type_str == Strip(PyStr(type_val))
        low      == Lower(type_str)
        is_data_row ==
            \/ NumericBearing(g, tc, r)
            \/ /\ cur # None /\ cur # ""
               /\ type_str # "Total patients (UNIQUE)"
               /\ type_str # "Other, please specify"
               /\ ~_looks_like_indication_section(type_str)
        sets == _looks_like_indication_section(type_str) /\ ~Contains("total patients", low)
    IN
    IF isna(type_val) THEN [cls |-> "blank", cur |-> cur, emit |-> <<>>]
    ELSE IF type_str = "" THEN [cls |-> "skip", cur |-> cur, emit |-> <<>>]
    ELSE IF low \in skip_type_values \/ Contains("time period", low) \/ Contains("scope", low)
         THEN [cls |-> "skip", cur |-> cur, emit |-> <<>>]
    ELSE IF is_data_row
         THEN [DataRow(g, hr, tc, cur, r, type_str) EXCEPT !.cur = IF sets THEN type_str ELSE cur]
    ELSE IF sets THEN [cls |-> "section", cur |-> type_str, emit |-> <<>>]
    ELSE [cls |-> "other", cur |-> cur, emit |-> <<>>]

\* one iteration of the primary loop on sheet row r with section cur:
\* cls is the row's classification, cur the section after it, emit the rows added
PrimaryRow(g, hr, tc, cur, r) ==
    LET type_val == iloc(g, r, tc)
        type_str == Strip(PyStr(type_val))
        low      == Lower(type_str)
        has_numeric == NumericBearing(g, tc, r)
        is_data_row ==
            \/ has_numeric
            \/ /\ cur # None /\ cur # ""
               /\ type_str # "Total patients (UNIQUE)"
               /\ type_str # "Other, please specify"
               /\ ~_looks_like_indication_section(type_str)
    IN
    IF isna(type_val) THEN [cls |-> "blank", cur |-> cur, emit |-> <<>>]
    ELSE IF type_str = "" THEN [cls |-> "skip", cur |-> cur, emit |-> <<>>]
    ELSE IF low \in skip_type_values \/ Contains("time period", low) \/ Contains("scope", low)
         THEN [cls |-> "skip", cur |-> cur, emit |-> <<>>]
    ELSE IF is_data_row THEN DataRow(g, hr, tc, cur, r, type_str)
    ELSE IF _looks_like_indication_section(type_str) /\ ~Contains("total patients", low)
         THEN [cls |-> "section", cur |-> type_str, emit |-> <<>>]
    ELSE [cls |-> "other", cur |-> cur, emit |-> <<>>]

\* one iteration of the fallback loop (header row 0, key column 0)
FallbackRow(g, cur, r) ==
    LET type_val == iloc(g, r, 0)
        type_str == Strip(PyStr(type_val))
        low      == Lower(type_str)
        has_any_num == \E j \in 1..(NCols(g) - 1) : _is_numeric_cell(iloc(g, r, j))
    IN
    IF isna(type_val) THEN [cls |-> "blank", cur |-> cur, emit |-> <<>>]
    ELSE IF type_str = "" \/ low \in skip_type_values THEN [cls |-> "skip", cur |-> cur, emit |-> <<>>]
    ELSE IF ~has_any_num THEN
         IF ~_is_numeric_cell(type_val) /\ ~Contains("patients", low) /\ ~StartsWith(type_str, "Total")
         THEN [cls |-> "section", cur |-> type_str, emit |-> <<>>]
         ELSE [cls |-> "other", cur |-> cur, emit |-> <<>>]
    ELSE IF DetailsExcluded(type_str) THEN [cls |-> "data_excluded", cur |-> cur, emit |-> <<>>]
    ELSE [cls |-> "data", cur |-> cur,
          emit |-> << MetricRow(g, Headers(g, 0), 0, r, <<cur, DetailsTypeKey(type_str)>>) >>]

\* no placeholder: the fallback pass starting without a section label
FallbackSection_blank == ""

FallbackSection == "Details"

\* if not rows and nrows >= 2 and ncols >= 2
FallbackRuns(g, acc) == acc = <<>> /\ NRows(g) >= 2 /\ NCols(g) >= 2

RECURSIVE PrimaryLoop(_, _, _, _, _, _)
PrimaryLoop(g, hr, tc, cur, r, acc) ==
    IF r >= NRows(g) THEN acc
    ELSE LET s == PrimaryRow(g, hr, tc, cur, r)
         IN PrimaryLoop(g, hr, tc, s.cur, r + 1, acc \o s.emit)

RECURSIVE FallbackLoop(_, _, _, _)
FallbackLoop(g, cur, r, acc) ==
    IF r >= NRows(g) THEN acc
    ELSE LET s == FallbackRow(g, cur, r)
         IN FallbackLoop(g, s.cur, r + 1, acc \o s.emit)

\* if not rows: return pd.DataFrame(); else DataFrame(rows).set_index(..).sort_index()
DetailsFrame(acc) ==
    IF acc = <<>> THEN EmptyDF
    ELSE LET df == DataFrame(acc) IN [rows |-> SortRows(df.rows), cols |-> df.cols]

\* the whole function on a loaded sheet
parse_details_sheet(g) ==
    IF TooSmall(g) THEN EmptyDF
    ELSE LET h == FindHeader(g) IN
         IF ~h.found THEN EmptyDF
         ELSE LET prim == PrimaryLoop(g, h.header_row, h.type_col_idx, None, h.header_row + 1, <<>>)
                  acc  == IF FallbackRuns(g, prim)
                          THEN FallbackLoop(g, FallbackSection, 1, <<>>)
                          ELSE prim
              IN DetailsFrame(acc)

---------------------------------------------------------------------------
(* parse_american_hospital_excel: the overview table keyed by drug         *)

OverviewScanRows == 5

OverviewHits(g) ==
    { p \in (0..(Min(OverviewScanRows, NRows(g)) - 1)) \X (0..(NCols(g) - 1)) :
        Contains("Drug", PyStr(iloc(g, p[1], p[2]))) }

\* a cell float() converts or a blank one: the cells the row dict keeps
OverviewKept(val) == isna(val) \/ val.t = "num" \/ IsFloatText(val.s)

\* float(val) if pd.notna(val) else np.nan
FloatOrNaN(val) ==
    IF isna(val) THEN NaN
    ELSE IF val.t = "num" THEN Num(val.n)
    ELSE Num(FloatOfText(val.s))

RECURSIVE OverviewLabelsFrom(_, _, _, _, _)
OverviewLabelsFrom(g, hr, dc, r, j) ==
    IF j >= NCols(g) THEN <<>>
    ELSE LET rest == OverviewLabelsFrom(g, hr, dc, r, j + 1)
         IN IF j = dc \/ ~OverviewKept(iloc(g, r, j)) THEN rest
            ELSE AppendNew(<<PyStr(iloc(g, hr, j))>>, rest)

OverviewRow(g, hr, dc, r, drug) ==
    LET js == { j \in 0..(NCols(g) - 1) : j # dc /\ OverviewKept(iloc(g, r, j)) }
        label(j) == PyStr(iloc(g, hr, j))
        lastCol(h) == CHOOSE j \in js : label(j) = h /\ \A k \in js : label(k) = h => k <= j
    IN [key  |-> <<drug>>,
        cols |-> OverviewLabelsFrom(g, hr, dc, r, 0),
        vals |-> [h \in { label(j) : j \in js } |-> FloatOrNaN(iloc(g, r, lastCol(h)))],
        src  |-> r]

\* one iteration of the data-row loop
OverviewRowStep(g, hr, dc, r) ==
    LET drug_name == iloc(g, r, dc)
        drug_str  == Strip(PyStr(drug_name))
    IN IF isna(drug_name) THEN <<>>
       ELSE IF Contains("Total", drug_str) \/ Contains("UNIQUE", drug_str) \/ drug_str = "" THEN <<>>
       ELSE IF normalize_drug_name(drug_str) = None THEN <<>>
       ELSE << OverviewRow(g, hr, dc, r, normalize_drug_name(drug_str)) >>

RECURSIVE OverviewLoop(_, _, _, _, _)
OverviewLoop(g, hr, dc, r, acc) ==
    IF r >= NRows(g) THEN acc
    ELSE OverviewLoop(g, hr, dc, r + 1, acc \o OverviewRowStep(g, hr, dc, r))

\* the header search: first cell holding "Drug", row-major, in the first 5 rows
FindDrugHeader(g) ==
    LET hits == OverviewHits(g) IN
    IF hits = {} THEN [found |-> FALSE, header_row |-> 0, drug_col_idx |-> 0]
    ELSE LET p == CHOOSE p \in hits :
                    \A q \in hits : p[1] < q[1] \/ (p[1] = q[1] /\ p[2] <= q[2])
         IN [found |-> TRUE, header_row |-> p[1], drug_col_idx |-> p[2]]

\* raised: the ValueError of a sheet without a 'Drug' header cell
parse_american_hospital_excel(g) ==
    LET h == FindDrugHeader(g) IN
    IF ~h.found THEN [raised |-> TRUE, df |-> EmptyDF]
    ELSE LET acc == OverviewLoop(g, h.header_row, h.drug_col_idx, h.header_row + 1, <<>>)
         IN [raised |-> FALSE, df |-> IF acc = <<>> THEN EmptyDF ELSE DataFrame(acc)]

---------------------------------------------------------------------------
(* Coordinate index (get_details_sheet_row_col_map).  A dict is the        *)
(* sequence of its [k, v] items in insertion order; assigning to a key it  *)
(* holds replaces the value in place.                                      *)

DictKeys(d) == { d[n].k : n \in 1..Len(d) }
DictHas(d, key) == key \in DictKeys(d)
DictGet(d, key) == d[CHOOSE n \in 1..Len(d) : d[n].k = key].v
DictPut(d, key, val) ==
    IF DictHas(d, key)
    THEN [n \in 1..Len(d) |-> IF d[n].k = key THEN [k |-> key, v |-> val] ELSE d[n]]
    ELSE Append(d, [k |-> key, v |-> val])

RECURSIVE ColMapFrom(_, _, _)
\* for j in range(type_col_idx + 1, len(headers)): if h: col_map[h] = j
ColMapFrom(hs, j, acc) ==
    IF j >= Len(hs) THEN acc
    ELSE ColMapFrom(hs, j + 1, IF hs[j + 1] # "" THEN DictPut(acc, hs[j + 1], j) ELSE acc)

\* one iteration of the row loop on sheet row r with section cur and map acc
RowMapRow(g, tc, cur, r, acc) ==
    LET type_val == iloc(g, r, tc)
        type_str == Strip(PyStr(type_val))
        low      == Lower(type_str)
        has_numeric == NumericBearing(g, tc, r)
        is_data_row ==
            \/ has_numeric
            \/ /\ cur # None /\ cur # ""
               /\ type_str # "Total patients (UNIQUE)"
               /\ type_str # "Other, please specify"
               /\ ~_looks_like_indication_section(type_str)
    IN
    IF isna(type_val) THEN [cur |-> cur, map |-> acc]
    ELSE IF type_str = "" \/ low \in skip_type_values
            \/ Contains("time period", low) \/ Contains("scope", low)
         THEN [cur |-> cur, map |-> acc]
    ELSE IF is_data_row THEN
         IF cur = None THEN [cur |-> cur, map |-> acc]
         ELSE IF DetailsExcluded(type_str) THEN [cur |-> cur, map |-> acc]
         ELSE [cur |-> cur, map |-> DictPut(acc, <<cur, DetailsTypeKey(type_str)>>, r)]
    ELSE IF _looks_like_indication_section(type_str) /\ ~Contains("total patients", low)
         THEN [cur |-> type_str, map |-> acc]
    ELSE [cur |-> cur, map |-> acc]

RECURSIVE RowMapLoop(_, _, _, _, _)
RowMapLoop(g, tc, cur, r, acc) ==
    IF r >= NRows(g) THEN acc
    ELSE LET s == RowMapRow(g, tc, cur, r, acc)
         IN RowMapLoop(g, tc, s.cur, r + 1, s.map)

EmptyMaps == [row_map |-> <<>>, col_map |-> <<>>, header_row |-> 0, type_col_idx |-> 0]

get_details_sheet_row_col_map(g) ==
    IF TooSmall(g) THEN EmptyMaps
    ELSE LET h == FindHeader(g) IN
         IF ~h.found THEN EmptyMaps
         ELSE [row_map |-> RowMapLoop(g, h.type_col_idx, None, h.header_row + 1, <<>>),
               col_map |-> ColMapFrom(Headers(g, h.header_row), h.type_col_idx + 1, <<>>),
               header_row |-> h.header_row,
               type_col_idx |-> h.type_col_idx]

---------------------------------------------------------------------------
(* Write-back (fill_details_sheet_to_excel): resolution of keys and        *)
(* columns, the cell values, the files                                     *)

NoRow == 0 - 1
NoCol == 0 - 1

RECURSIVE Collapse(_)
Collapse(s) ==
    IF Len(s) <= 1 THEN s
    ELSE IF CharAt(s, 1) \in Whitespace /\ CharAt(s, 2) \in Whitespace THEN Collapse(Tail(s))
    ELSE CharAt(s, 1) \o Collapse(Tail(s))

\* " ".join(str(s).strip().split())
_norm(s) == Collapse(Strip(s))

RECURSIVE StrippedKeys(_, _)
\* col_map_normalized = {str(k).strip(): v for k, v in col_map.items()}
StrippedKeys(cm, acc) ==
    IF cm = <<>> THEN acc
    ELSE StrippedKeys(Tail(cm), DictPut(acc, Strip(cm[1].k), cm[1].v))

RECURSIVE NormedKeys(_, _)
\* col_map_fuzzy = {_norm(k): (k, v) for k, v in col_map.items()}
NormedKeys(cm, acc) ==
    IF cm = <<>> THEN acc
    ELSE NormedKeys(Tail(cm), DictPut(acc, _norm(cm[1].k), cm[1].v))

\* cols_matched = [c for c in df_cols_stripped if c in col_map_normalized]
ColsMatched(df, cm) ==
    { n \in 1..Len(df.cols) : DictHas(StrippedKeys(cm, <<>>), Strip(df.cols[n])) }

\* the fuzzy match by Type alone, whatever the section
_row_key_for_any_section(rm, key) ==
    IF DictHas(rm, key) THEN DictGet(rm, key)
    ELSE LET typ_s == Strip(key[2])
             hits  == { n \in 1..Len(rm) : Strip(rm[n].k[2]) = typ_s }
         IN IF hits = {} THEN NoRow
            ELSE rm[CHOOSE n \in hits : \A m \in hits : n <= m].v

\* the sheet row of (Indication, Type): the exact key, else the first item of
\* row_map with the same Type and a section containing or contained in ind
_row_key_for(rm, key) ==
    IF DictHas(rm, key) THEN DictGet(rm, key)
    ELSE LET ind_s == Strip(key[1])
             typ_s == Strip(key[2])
             hits  == { n \in 1..Len(rm) :
                          /\ Strip(rm[n].k[2]) = typ_s
                          /\ (Contains(Strip(rm[n].k[1]), ind_s) \/ Contains(ind_s, Strip(rm[n].k[1]))) }
         IN IF hits = {} THEN NoRow
            ELSE rm[CHOOSE n \in hits : \A m \in hits : n <= m].v

\* col_idx_0 of lines 515-522
ColIdx(cm, col_name) ==
    LET col_stripped == Strip(col_name)
        normalized   == StrippedKeys(cm, <<>>)
        fuzzy        == NormedKeys(cm, <<>>)
    IN IF DictHas(normalized, col_stripped) THEN DictGet(normalized, col_stripped)
       ELSE IF DictHas(fuzzy, _norm(col_name)) THEN DictGet(fuzzy, _norm(col_name))
       ELSE NoCol

\* lines 524-531 for the index entry at position pos: .loc[key, col_name] is a
\* Series when the key is repeated, and its truth test raises ValueError
CellValue(df, pos, col_name) ==
    IF Cardinality(RowsAt(df, df.rows[pos].key)) > 1 THEN 0
    ELSE LET val == df.rows[pos].vals[col_name] IN
         IF isna(val) THEN 0 ELSE val.n

\* ws.cell(row=r + 1, column=c + 1, value=v)
SetCell(w, r, c, v) == [w EXCEPT ![r + 1][c + 1] = Num(v)]

RECURSIVE FillCols(_, _, _, _, _, _, _)
\* the loop over details_df.columns for one index entry resolved to row_i
FillCols(w, n, df, pos, row_i, cm, j) ==
    IF j > Len(df.cols) THEN [wb |-> w, written |-> n]
    ELSE LET c == ColIdx(cm, df.cols[j]) IN
         IF c = NoCol THEN FillCols(w, n, df, pos, row_i, cm, j + 1)
         ELSE FillCols(SetCell(w, row_i, c, CellValue(df, pos, df.cols[j])),
                       n + 1, df, pos, row_i, cm, j + 1)

\* the cells written for one index entry without counting them
FillEntry_uncounted(w, n, df, pos, rm, cm) ==
    LET row_i == _row_key_for(rm, df.rows[pos].key) IN
    IF row_i = NoRow THEN [wb |-> w, written |-> n]
    ELSE [wb |-> FillCols(w, n, df, pos, row_i, cm, 1).wb, written |-> n]

\* one iteration of the loop over details_df.index
FillEntry(w, n, df, pos, rm, cm) ==
    LET row_i == _row_key_for(rm, df.rows[pos].key) IN
    IF row_i = NoRow THEN [wb |-> w, written |-> n]
    ELSE FillCols(w, n, df, pos, row_i, cm, 1)

\* the test that never fires
NoCellsWritten_never(n) == FALSE

\* if written == 0
NoCellsWritten(n) == n = 0

\* a file: absent, created empty, partly written, or holding a whole workbook
Absent      == [state |-> "absent",   grid |-> <<>>]
EmptyFile   == [state |-> "empty",    grid |-> <<>>]
PartialFile == [state |-> "partial",  grid |-> <<>>]
Complete(g) == [state |-> "complete", grid |-> g]

\* wb.save given the path of the target
SaveDestination_abs_path == "abs_path"

\* wb.save(tmp_path)
SaveDestination == "tmp_path"

---------------------------------------------------------------------------
(* Reconciler (compare_details, compare_drugs).  A comparison row is a     *)
(* record row whose cols are the dict's fields in insertion order.         *)

PositionalPairs == 4
DetailsMetricLen == 35
DrugsMetricLen == 40
DrugsColumnFallback == 5

\* pd.api.types.is_numeric_dtype(df[c]): the extractors store floats and NaN
\* only, so every column of an extracted table is float64
NumericCols(df) == df.cols

\* row_data[field] = v
RowPut(row, field, v) ==
    [row EXCEPT !.cols = IF field \in SeqToSet(row.cols) THEN row.cols ELSE Append(row.cols, field),
                !.vals = (field :> Num(v)) @@ row.vals]

\* row_data = {index fields only}: no metric field yet
KeyOnlyRow(key) == [key |-> key, cols |-> <<>>, vals |-> <<>>, src |-> 0]

\* sorted(set(old_df.index) | set(new_df.index))
RECURSIVE SortedKeys(_)
SortedKeys(keys) ==
    IF keys = {} THEN <<>>
    ELSE LET least == CHOOSE k \in keys : \A q \in keys : q = k \/ KeyLess(k, q)
         IN <<least>> \o SortedKeys(keys \ {least})

\* df.at[key, col] / df.loc[key, col] read as one cell: a Series when the
\* key is repeated in the index
IsSeriesAt(df, key) == Cardinality(RowsAt(df, key)) > 1
ScalarAt(df, key, col) == df.rows[CHOOSE n \in RowsAt(df, key) : TRUE].vals[col]

\* float(x) followed by the pd.isna test: NaN reads 0.0
ZeroIfNaN(val) == IF isna(val) THEN 0 ELSE val.n

details_metric_keys == <<
    <<"Total patients treated in the last 12 months",
      "Total patients treated in the last 6 months">>,
    <<"Newly diagnosed patients received drug treatments in the last 12 months",
      "Newly diagnosed patients received drug treatments in the last 6 months">>,
    <<"Follow up patients and received drug treatments in the last 12 months",
      "Follow up patients and received drug treatments in the last 6 months">> >>

RECURSIVE KnownPairs(_, _, _)
\* lines 578-581
KnownPairs(o, nw, j) ==
    IF j > Len(details_metric_keys) THEN <<>>
    ELSE (IF details_metric_keys[j][1] \in SeqToSet(o.cols)
             /\ details_metric_keys[j][2] \in SeqToSet(nw.cols)
          THEN << details_metric_keys[j] >> ELSE <<>>) \o KnownPairs(o, nw, j + 1)

\* zip(a[:limit], b[:limit])
ZipCols(a, b, limit) ==
    [j \in 1..Min(limit, Min(Len(a), Len(b))) |-> <<a[j], b[j]>>]

\* the pairing by position alone
DetailsColPairs_by_position(o, nw) ==
    ZipCols(NumericCols(o), NumericCols(nw), PositionalPairs)

\* the known pairs followed by the pairing by position
DetailsColPairs_known_then_position(o, nw) ==
    KnownPairs(o, nw, 1) \o ZipCols(NumericCols(o), NumericCols(nw), PositionalPairs)

\* lines 578-587
DetailsColPairs(o, nw) ==
    IF KnownPairs(o, nw, 1) # <<>> THEN KnownPairs(o, nw, 1)
    ELSE ZipCols(NumericCols(o), NumericCols(nw), PositionalPairs)

\* line 594
DetailsMetric(old_col) ==
    Replace(Replace(Prefix(old_col, DetailsMetricLen), "12 months", "12mo"), "6 months", "6mo")

\* the difference taken the other way round
Change_old_minus_new(old_val, new_val) == old_val - new_val

\* new_val - old_val
Change(old_val, new_val) == new_val - old_val

\* the three fields of one metric
PutMetric(row, metric, old_val, new_val) ==
    RowPut(RowPut(RowPut(row, metric \o "_old", old_val),
                  metric \o "_new", new_val),
           metric \o "_change", Change(old_val, new_val))

\* lines 593-606 for one key and one column pair
DetailsPair(o, nw, key, pair, row) ==
    LET old_has == key \in IndexKeys(o) /\ pair[1] \in SeqToSet(o.cols)
        new_has == key \in IndexKeys(nw) /\ pair[2] \in SeqToSet(nw.cols)
        \* float(Series) raises TypeError: old_val, new_val = 0.0, 0.0
        caught  == (old_has /\ IsSeriesAt(o, key)) \/ (new_has /\ IsSeriesAt(nw, key))
        old_val == IF caught \/ ~old_has THEN 0 ELSE ZeroIfNaN(ScalarAt(o, key, pair[1]))
        new_val == IF caught \/ ~new_has THEN 0 ELSE ZeroIfNaN(ScalarAt(nw, key, pair[2]))
    IN PutMetric(row, DetailsMetric(pair[1]), old_val, new_val)

RECURSIVE DetailsRow(_, _, _, _, _, _)
DetailsRow(o, nw, key, pairs, j, row) ==
    IF j > Len(pairs) THEN row
    ELSE DetailsRow(o, nw, key, pairs, j + 1, DetailsPair(o, nw, key, pairs[j], row))

compare_details(o, nw) ==
    IF IsEmptyDF(o) /\ IsEmptyDF(nw) THEN EmptyDF
    ELSE LET pairs == DetailsColPairs(o, nw)
             all_keys == SortedKeys(IndexKeys(o) \cup IndexKeys(nw))
         IN DataFrame([k \in 1..Len(all_keys) |->
                          DetailsRow(o, nw, all_keys[k], pairs, 1, KeyOnlyRow(all_keys[k]))])

drugs_metric_keys == <<
    <<"Total", "Total">>,
    <<"Newly diagnosed patients received", "Newly diagnosed">>,
    <<"Follow up patients and received", "Follow up received">>,
    <<"Active patients", "Active patients">> >>

\* the first element of q satisfying the test held by the set hits of positions
FirstIn(q, hits) == q[CHOOSE n \in hits : \A m \in hits : n <= m]

RECURSIVE KeywordPairs(_, _, _)
\* lines 629-637: the first old column holding ok, paired with the first new
\* column holding nk or ok, if there is one
KeywordPairs(o, nw, j) ==
    IF j > Len(drugs_metric_keys) THEN <<>>
    ELSE LET ok == drugs_metric_keys[j][1]
             nk == drugs_metric_keys[j][2]
             olds == { n \in 1..Len(o.cols) : Contains(ok, o.cols[n]) }
             news == { n \in 1..Len(nw.cols) : Contains(nk, nw.cols[n]) \/ Contains(ok, nw.cols[n]) }
         IN (IF olds # {} /\ news # {}
             THEN << <<FirstIn(o.cols, olds), FirstIn(nw.cols, news)>> >> ELSE <<>>)
            \o KeywordPairs(o, nw, j + 1)

\* lines 629-648
DrugsColPairs(o, nw) ==
    IF KeywordPairs(o, nw, 1) # <<>> THEN KeywordPairs(o, nw, 1)
    ELSE LET numeric_old == IF NumericCols(o) = <<>>
                            THEN SubSeq(o.cols, 1, Min(DrugsColumnFallback, Len(o.cols)))
                            ELSE NumericCols(o)
             numeric_new == IF NumericCols(nw) = <<>>
                            THEN SubSeq(nw.cols, 1, Min(DrugsColumnFallback, Len(nw.cols)))
                            ELSE NumericCols(nw)
         IN ZipCols(numeric_old, numeric_new, PositionalPairs)

\* line 660
DrugsMetric(old_col) ==
    Replace(Replace(Prefix(old_col, DrugsMetricLen),
                    "Total patients treated in the last 12 months", "Total"),
            "Total patients treated in the last 6 months", "Total")

\* lines 661-664 raise ValueError: the truth test of pd.notna(Series)
DrugsPairRaises(o, nw, key, pair) ==
    /\ pair[1] \in SeqToSet(o.cols) /\ pair[2] \in SeqToSet(nw.cols)
    /\ \/ key \in IndexKeys(o) /\ IsSeriesAt(o, key)
       \/ key \in IndexKeys(nw) /\ IsSeriesAt(nw, key)

\* lines 658-668 for one drug and one column pair, when they do not raise
DrugsPair(o, nw, key, pair, row) ==
    IF pair[1] \notin SeqToSet(o.cols) \/ pair[2] \notin SeqToSet(nw.cols) THEN row
    ELSE LET old_val == IF key \in IndexKeys(o) THEN ZeroIfNaN(ScalarAt(o, key, pair[1])) ELSE 0
             new_val == IF key \in IndexKeys(nw) THEN ZeroIfNaN(ScalarAt(nw, key, pair[2])) ELSE 0
         IN PutMetric(row, DrugsMetric(pair[1]), old_val, new_val)

RECURSIVE DrugsRow(_, _, _, _, _, _)
DrugsRow(o, nw, key, pairs, j, row) ==
    IF j > Len(pairs) THEN row
    ELSE DrugsRow(o, nw, key, pairs, j + 1, DrugsPair(o, nw, key, pairs[j], row))

\* raised: ValueError of a repeated key, or KeyError of set_index("Drug") on
\* the frame of an empty row list
compare_drugs(o, nw) ==
    LET pairs == DrugsColPairs(o, nw)
        all_drugs == SortedKeys(IndexKeys(o) \cup IndexKeys(nw))
    IN IF \E k \in 1..Len(all_drugs) : \E j \in 1..Len(pairs) :
              DrugsPairRaises(o, nw, all_drugs[k], pairs[j])
       THEN [raised |-> TRUE, error |-> "ValueError", df |-> EmptyDF]
       ELSE IF all_drugs = <<>>
       THEN [raised |-> TRUE, error |-> "KeyError", df |-> EmptyDF]
       ELSE [raised |-> FALSE, error |-> "",
             df |-> DataFrame([k \in 1..Len(all_drugs) |->
                       DrugsRow(o, nw, all_drugs[k], pairs, 1, KeyOnlyRow(all_drugs[k]))])]

---------------------------------------------------------------------------
(* Labels the normalizer is exercised on: a base label, optionally padded  *)
(* and optionally followed by more text.                                   *)

BaseLabels == {
    "", "Other", "Other, please specify", "Other, please specif",
    "Other. (somatrogon (NGENLA) 60mg/1.2mL PFP 1's)",
    "Other. (somatrogon (NGENLA)", "Other. (somatrogon (",
    "Ngenla (Pfizer)", "Genotropin (Pfizer)", "Widget A", "Another", "other",
    "Total patients (UNIQUE)", "Small for Gestational Age (SGA)" }

LabelPads == {"", " "}
LabelSuffixes == {"", " ", " (X)", ": Other"}

RawLabels == { p \o b \o x : p \in LabelPads, b \in BaseLabels, x \in LabelSuffixes }

---------------------------------------------------------------------------
(* Sheets the extractor is exercised on: a header layout followed by       *)
(* MaxBodyRows body rows, and the sheets of the documented scenarios.      *)

MaxBodyRows == 3

BodyRowChoices == {
    << Txt("Small for Gestational Age (SGA)"), NaN, NaN >>,
    << Txt("Total patients (UNIQUE)"), Num(9), Num(9) >>,
    << Txt("Widget A"), Num(5), Num(7) >>,
    << Txt("Widget A"), NaN, NaN >>,
    << Txt("Other"), Num(3), NaN >>,
    << Txt("Ngenla (Pfizer)"), Num(4), Txt("x") >>,
    << Txt("Other, please specify"), Num(2), Num(2) >>,
    << Txt("Other, please specify (X)"), Num(2), Num(1) >>,
    << Txt("Turner Syndrome"), Num(1), NaN >>,
    << Txt("UNIQUE patients"), NaN, NaN >>,
    << Txt("Scope"), Num(1), NaN >>,
    << NaN, NaN, NaN >> }

HeaderLayouts == {
    << << Txt("Type"), Txt("M1"), Txt("M2") >> >>,
    << << Txt("Questionnaire - details"), NaN, NaN >>,
       << NaN, NaN, NaN >>,
       << Txt("Drug "), Txt(" M1"), Txt("M1") >> >> }

GeneratedSheets ==
    { top \o body : top \in HeaderLayouts, body \in [1..MaxBodyRows -> BodyRowChoices] }

\* the sheet of the documented extraction scenario: header at index 2
ScenarioCategorySheet == <<
    << Txt("Questionnaire - details"), NaN, NaN, NaN >>,
    << NaN, NaN, NaN, NaN >>,
    << Txt("Type"), Txt("Metric1"), Txt("Metric2"), Txt("Metric3") >>,
    << Txt("Category X"), NaN, NaN, NaN >>,
    << Txt("Widget A"), Num(10), Num(2), Num(8) >>,
    << NaN, NaN, NaN, NaN >>,
    << Txt("Category Y"), NaN, NaN, NaN >>,
    << Txt("Widget A"), Num(0), Num(0), Num(0) >> >>

\* the same sheet with banners the section heuristics recognise
ScenarioSectionSheet == <<
    << Txt("Questionnaire - details"), NaN, NaN, NaN >>,
    << NaN, NaN, NaN, NaN >>,
    << Txt("Type"), Txt("Metric1"), Txt("Metric2"), Txt("Metric3") >>,
    << Txt("Category X (SGA)"), NaN, NaN, NaN >>,
    << Txt("Widget A"), Num(10), Num(2), Num(8) >>,
    << NaN, NaN, NaN, NaN >>,
    << Txt("Category Y (SGA)"), NaN, NaN, NaN >>,
    << Txt("Widget A"), Num(0), Num(0), Num(0) >> >>

ScenarioSheets == { ScenarioCategorySheet, ScenarioSectionSheet }

\* sheets without a header keyword in any cell, or with fewer than two rows
UnheadedSheets == {
    <<>>,
    << << Txt("Type"), Txt("M1"), Txt("M2") >> >>,
    << << Txt("Name"), Txt("M1"), Txt("M2") >> >>,
    << << Txt("Name"), Txt("M1"), Txt("M2") >>,
       << Txt("Widget A"), Num(5), Num(7) >>,
       << Txt("Other"), Num(3), NaN >> >>,
    << << Txt("Name"), NaN >>,
       << Txt("Small for Gestational Age (SGA)"), NaN >>,
       << Txt("Widget A"), Txt("x") >> >> }

\* sheets with seven metric columns: under a banner, two rows whose only
\* number stands in one of the columns WideNumberCols
WideLabels == << "Type", "M1", "M2", "M3", "M4", "M5", "M6", "M7" >>
WideNumberCols == 4..7

WideRow(label, pos) ==
    [j \in 1..Len(WideLabels) |->
        IF j = 1 THEN Txt(label) ELSE IF j = pos + 1 THEN Num(4) ELSE NaN]

WideSheets ==
    { << [j \in 1..Len(WideLabels) |-> Txt(WideLabels[j])],
         WideRow("Small for Gestational Age (SGA)", 0),
         WideRow("Turner Syndrome", p),
         WideRow("Widget A", q) >> : p \in WideNumberCols, q \in WideNumberCols }

\* sheets for the header search: a long sentence holding a keyword above the
\* header; a keyword in column 0 below one in column 2; eleven columns with a
\* keyword in the last; keywords at rows 24 and 25 under blank rows
LongProse == "Please list every drug the centre prescribed in the period"
LocatorCols == 11
LocatorRows == 26

BlankRow(n) == [j \in 1..n |-> NaN]
RowWith(n, cells) == [j \in 1..n |-> IF j \in DOMAIN cells THEN cells[j] ELSE NaN]

LocatorSheets == {
    << << Txt(LongProse), NaN, NaN >>,
       << NaN, Txt("Product"), Txt("Treatment") >>,
       << NaN, Txt("Small for Gestational Age (SGA)"), NaN >>,
       << NaN, Txt("Widget A"), Num(5) >> >>,
    << << NaN, NaN, Txt("Type"), Txt("M1") >>,
       << Txt("Drug"), NaN, NaN, NaN >>,
       << NaN, NaN, Txt("Small for Gestational Age (SGA)"), NaN >>,
       << NaN, NaN, Txt("Widget A"), Num(5) >> >>,
    << RowWith(LocatorCols, (LocatorCols :> Txt("Type"))),
       RowWith(LocatorCols, (1 :> Txt("Treatment")) @@ (2 :> Txt("M1"))),
       RowWith(LocatorCols, (1 :> Txt("Small for Gestational Age (SGA)"))),
       RowWith(LocatorCols, (1 :> Txt("Widget A")) @@ (2 :> Num(5))) >>,
    << RowWith(LocatorCols, (LocatorCols :> Txt("Type"))),
       RowWith(LocatorCols, (1 :> Txt("Widget A")) @@ (2 :> Num(5))) >>,
    [r \in 1..LocatorRows |->
        IF r = LocatorRows THEN << Txt("Type"), Txt("M1") >> ELSE BlankRow(2)],
    [r \in 1..LocatorRows |->
        IF r >= LocatorRows - 1 THEN << Txt("Drug"), Txt("M1") >> ELSE BlankRow(2)] }

Sheets ==
    GeneratedSheets \cup ScenarioSheets \cup UnheadedSheets \cup WideSheets \cup LocatorSheets

\* target sheets of the write-back: two banners, filled and unfilled entity
\* rows, two labels normalizing to one name
FillRowChoices == {
    << Txt("Small for Gestational Age (SGA)"), NaN, NaN >>,
    << Txt("Turner Syndrome"), NaN, NaN >>,
    << Txt("Widget A"), Num(5), Num(7) >>,
    << Txt("Widget A"), NaN, NaN >>,
    << Txt("Other"), Num(3), NaN >>,
    << Txt("Ngenla (Pfizer)"), Num(4), Txt("x") >> }

FillSheets ==
    { top \o body : top \in HeaderLayouts, body \in [1..MaxBodyRows -> FillRowChoices] }

\* a record of a source table (not read from the target sheet: src 0)
SourceRecord(sec, typ, cs, vs) ==
    [key |-> <<sec, typ>>, cols |-> cs, vals |-> vs, src |-> 0]

\* source tables whose keys and columns match the target partly or not at all:
\* a shortened section label and a foreign column; a foreign key; a foreign
\* column only; a single matching cell next to a foreign key; a section under
\* its full and its shortened label
SourceTables == {
    DetailsFrame(<< SourceRecord("SGA", "Widget A", <<"M1">>, ("M1" :> Num(11))),
                    SourceRecord("Small for Gestational Age (SGA)", "Widget A", <<"M1">>,
                                 ("M1" :> Num(12))) >>),
    DetailsFrame(<< SourceRecord("SGA", "Widget A", <<"M1", "Zed">>,
                                 ("M1" :> Num(11)) @@ ("Zed" :> Num(1))) >>),
    DetailsFrame(<< SourceRecord("Turner Syndrome", "Widget B", <<"M1">>, ("M1" :> Num(6))) >>),
    DetailsFrame(<< SourceRecord("Small for Gestational Age (SGA)", "Widget A", <<"Zed">>,
                                 ("Zed" :> Num(4))) >>),
    DetailsFrame(<< SourceRecord("Turner Syndrome", "Widget A", <<"M1 ">>, ("M1 " :> Num(8))),
                    SourceRecord("Growth Hormone Deficiency", "Widget A", <<"M1 ">>,
                                 ("M1 " :> NaN)) >>) }

\* the tables handed to the write-back of sheet g: its own extraction, or a
\* source table
FillTables(g) == { parse_details_sheet(g) } \cup SourceTables

\* tables handed to the reconciler: up to MaxCmpRows records over two names
\* (a name may recur, as in an extraction of 'Other' and 'Ngenla (Pfizer)'),
\* one of the column lists, the cells filled after one of three patterns
MaxCmpRows == 2

Total12 == "Total patients treated in the last 12 months"
Total6 == "Total patients treated in the last 6 months"

FiveCols == << "C1", "C2", "C3", "C4", "C5" >>

CmpColumnLists ==
    { <<Total12>>, <<"M1", Total12>>, <<Total6>>, <<Total6, "M1">>, <<>>,
      FiveCols, <<Total12, Total6>> }
CmpNames == << "A", "B" >>
CmpPatterns == 1..3

\* pattern 1: 100, 200, .. down the rows; 2: 60 everywhere; 3: a blank first
\* column and 7 elsewhere
CmpCell(pattern, r, j) ==
    CASE pattern = 1 -> Num(100 * r)
      [] pattern = 2 -> Num(60)
      [] OTHER       -> IF j = 1 THEN NaN ELSE Num(7)

\* the non-decreasing sequences of positions of CmpNames, up to MaxCmpRows long
CmpNameLists ==
    UNION { { q \in [1..len -> 1..Len(CmpNames)] : \A r \in 1..(len - 1) : q[r] <= q[r + 1] }
            : len \in 0..MaxCmpRows }

CmpRecord(key, cs, pattern, r) ==
    [key |-> key, cols |-> cs, src |-> 0,
     vals |-> [c \in SeqToSet(cs) |->
                 CmpCell(pattern, r, CHOOSE j \in 1..Len(cs) : cs[j] = c)]]

\* tables keyed by (Indication, Type), as parse_details_sheet returns them
DetailsCmpTables ==
    { DetailsFrame([r \in 1..Len(q) |-> CmpRecord(<<"CatX", CmpNames[q[r]]>>, cs, p, r)])
        : q \in CmpNameLists, cs \in CmpColumnLists, p \in CmpPatterns }

\* tables keyed by Drug, as parse_american_hospital_excel returns them
DrugsCmpTables ==
    { IF Len(q) = 0 THEN EmptyDF
      ELSE DataFrame([r \in 1..Len(q) |-> CmpRecord(<<CmpNames[q[r]]>>, cs, p, r)])
        : q \in CmpNameLists, cs \in CmpColumnLists, p \in CmpPatterns }

---------------------------------------------------------------------------
(* parse_details_sheet, one loop iteration per step                        *)

NormIdle == name = "" /\ canonical = None /\ npc = "idle"

NoComparison == [raised |-> FALSE, error |-> "", df |-> EmptyDF]

CmpIdle == old_df = EmptyDF /\ new_df = EmptyDF /\ cpc = "idle" /\ comparison = NoComparison

ParseIdle ==
    /\ df_raw = <<>> /\ ppc = "idle" /\ header_row = 0 /\ type_col_idx = 0 /\ i = 0
    /\ current_indication = None /\ current_indication_fb = None
    /\ rows = <<>> /\ classified = <<>> /\ result = EmptyDF

NoInfo ==
    [n_df_keys |-> 0, n_sheet_keys |-> 0, cols_matched |-> 0, n_df_cols |-> 0,
     n_sheet_cols |-> 0, sample_sheet |-> {}, sample_df |-> {}, sheet_cols |-> <<>>]

NoOutcome == [kind |-> "none", msg |-> "", value |-> 0, info |-> NoInfo]

FillIdle ==
    /\ target = Absent /\ target0 = Absent /\ tmp_file = Absent
    /\ details_df = EmptyDF /\ row_map = <<>> /\ col_map = <<>> /\ wb = <<>>
    /\ key_pos = 0 /\ written = 0 /\ fpc = "idle" /\ outcome = NoOutcome

ParseInit ==
    /\ df_raw \in Sheets
    /\ ppc = "locate"
    /\ header_row = 0 /\ type_col_idx = 0 /\ i = 0
    /\ current_indication = None /\ current_indication_fb = None
    /\ rows = <<>> /\ classified = <<>> /\ result = EmptyDF
    /\ NormIdle /\ FillIdle /\ CmpIdle

\* lines 216-237: the size test and the header search
Locate ==
    /\ ppc = "locate"
    /\ LET h == FindHeader(df_raw) IN
       IF TooSmall(df_raw) \/ ~h.found
       THEN /\ ppc' = "done"
            /\ result' = EmptyDF
            /\ UNCHANGED <<header_row, type_col_idx, i>>
       ELSE /\ ppc' = "primary"
            /\ header_row' = h.header_row
            /\ type_col_idx' = h.type_col_idx
            /\ i' = h.header_row + 1
            /\ UNCHANGED result
    /\ UNCHANGED <<df_raw, current_indication, current_indication_fb, rows, classified>>

\* lines 239-284: one iteration of the primary loop
PrimaryStep ==
    /\ ppc = "primary"
    /\ i < NRows(df_raw)
    /\ LET s == PrimaryRow(df_raw, header_row, type_col_idx, current_indication, i) IN
       /\ current_indication' = s.cur
       /\ rows' = rows \o s.emit
       /\ classified' = Append(classified, [row |-> i, cls |-> s.cls, sec |-> current_indication, pass |-> "primary"])
    /\ i' = i + 1
    /\ UNCHANGED <<df_raw, ppc, header_row, type_col_idx, current_indication_fb, result>>

\* lines 286-291: the primary loop is over; enter the fallback pass or not
PrimaryEnd ==
    /\ ppc = "primary"
    /\ i >= NRows(df_raw)
    /\ IF FallbackRuns(df_raw, rows)
       THEN /\ ppc' = "fallback"
            /\ current_indication_fb' = FallbackSection
            /\ i' = 1
       ELSE /\ ppc' = "finish"
            /\ UNCHANGED <<current_indication_fb, i>>
    /\ UNCHANGED <<df_raw, header_row, type_col_idx, current_indication, rows, classified, result>>

\* lines 292-324: one iteration of the fallback loop
FallbackStep ==
    /\ ppc = "fallback"
    /\ i < NRows(df_raw)
    /\ LET s == FallbackRow(df_raw, current_indication_fb, i) IN
       /\ current_indication_fb' = s.cur
       /\ rows' = rows \o s.emit
       /\ classified' = Append(classified, [row |-> i, cls |-> s.cls, sec |-> current_indication_fb, pass |-> "fallback"])
    /\ i' = i + 1
    /\ UNCHANGED <<df_raw, ppc, header_row, type_col_idx, current_indication, result>>

FallbackEnd ==
    /\ ppc = "fallback"
    /\ i >= NRows(df_raw)
    /\ ppc' = "finish"
    /\ UNCHANGED <<df_raw, header_row, type_col_idx, i, current_indication,
                   current_indication_fb, rows, classified, result>>

\* lines 326-330: build, index and sort the frame
Finish ==
    /\ ppc = "finish"
    /\ result' = DetailsFrame(rows)
    /\ ppc' = "done"
    /\ UNCHANGED <<df_raw, header_row, type_col_idx, i, current_indication,
                   current_indication_fb, rows, classified>>

notParse == <<normVars, fillVars, cmpVars>>

ParseNext ==
    \/ Locate /\ UNCHANGED notParse
    \/ PrimaryStep /\ UNCHANGED notParse
    \/ PrimaryEnd /\ UNCHANGED notParse
    \/ FallbackStep /\ UNCHANGED notParse
    \/ FallbackEnd /\ UNCHANGED notParse
    \/ Finish /\ UNCHANGED notParse

SpecParse == ParseInit /\ [][ParseNext]_vars

---------------------------------------------------------------------------
(* normalize_drug_name as a callable: call, return, call again on result   *)

NormInit ==
    /\ name \in RawLabels
    /\ canonical = None
    /\ npc = "call"
    /\ ParseIdle
    /\ FillIdle
    /\ CmpIdle

Normalize ==
    /\ npc = "call"
    /\ canonical' = normalize_drug_name(name)
    /\ npc' = "returned"
    /\ UNCHANGED name

Renormalize ==
    /\ npc = "returned"
    /\ canonical # None
    /\ name' = canonical
    /\ canonical' = normalize_drug_name(canonical)
    /\ npc' = "renormalized"

notNorm == <<parseVars, fillVars, cmpVars>>

NormNext ==
    \/ Normalize /\ UNCHANGED notNorm
    \/ Renormalize /\ UNCHANGED notNorm

SpecNorm == NormInit /\ [][NormNext]_vars

---------------------------------------------------------------------------
(* fill_details_sheet_to_excel on a target file, one statement per step    *)

Raised(kind, msg) == [kind |-> kind, msg |-> msg, value |-> 0, info |-> NoInfo]
Returned(n) == [kind |-> "returned", msg |-> "", value |-> n, info |-> NoInfo]

SampleKeys == 3
SampleCols == 5

\* list(keys)[:SampleKeys] of a set: any SampleKeys of its elements
Samples(keys) ==
    { q \in SUBSET keys : Cardinality(q) = Min(SampleKeys, Cardinality(keys)) }

\* what the message of lines 541-546 is formatted from
MismatchInfo(df, rm, cm, sample_sheet, sample_df) ==
    [n_df_keys    |-> Cardinality(IndexKeys(df)),
     n_sheet_keys |-> Cardinality(DictKeys(rm)),
     cols_matched |-> Cardinality(ColsMatched(df, cm)),
     n_df_cols    |-> Len(df.cols),
     n_sheet_cols |-> Len(StrippedKeys(cm, <<>>)),
     sample_sheet |-> sample_sheet,
     sample_df    |-> sample_df,
     sheet_cols   |-> LET ks == StrippedKeys(cm, <<>>)
                      IN [n \in 1..Min(SampleCols, Len(ks)) |-> ks[n].k]]

FillInit ==
    /\ \E g \in FillSheets :
          /\ target = Complete(g)
          /\ details_df \in FillTables(g)
    /\ target0 = target
    /\ tmp_file = Absent
    /\ row_map = <<>> /\ col_map = <<>> /\ wb = <<>>
    /\ key_pos = 0 /\ written = 0 /\ fpc = "start" /\ outcome = NoOutcome
    /\ NormIdle /\ ParseIdle /\ CmpIdle

\* lines 470-508: the argument test, the coordinate index, the workbook load
FillStart ==
    /\ fpc = "start"
    /\ LET m == get_details_sheet_row_col_map(target.grid) IN
       IF IsEmptyDF(details_df)
       THEN /\ fpc' = "raised"
            /\ outcome' = Raised("ValueError", "details_df must have MultiIndex (Indication, Type)")
            /\ UNCHANGED <<row_map, col_map, wb, key_pos>>
       ELSE IF m.row_map = <<>> \/ m.col_map = <<>>
       THEN /\ fpc' = "raised"
            /\ outcome' = Raised("ValueError", "Could not find details layout in the sheet")
            /\ row_map' = m.row_map /\ col_map' = m.col_map
            /\ UNCHANGED <<wb, key_pos>>
       ELSE /\ fpc' = "loop"
            /\ row_map' = m.row_map /\ col_map' = m.col_map
            /\ wb' = target.grid
            /\ key_pos' = 1
            /\ UNCHANGED outcome
    /\ UNCHANGED <<target, target0, tmp_file, details_df, written>>

\* lines 509-533: one iteration of the loop over details_df.index
FillKey ==
    /\ fpc = "loop"
    /\ key_pos <= Len(details_df.rows)
    /\ LET s == FillEntry(wb, written, details_df, key_pos, row_map, col_map) IN
       /\ wb' = s.wb
       /\ written' = s.written
    /\ key_pos' = key_pos + 1
    /\ UNCHANGED <<target, target0, tmp_file, details_df, row_map, col_map, fpc, outcome>>

\* lines 535-546: after the loop, the error of a call that wrote nothing
FillCheck ==
    /\ fpc = "loop"
    /\ key_pos > Len(details_df.rows)
    /\ IF NoCellsWritten(written)
       THEN /\ fpc' = "raised"
            /\ \E sample_sheet \in Samples(DictKeys(row_map)),
                  sample_df \in Samples(IndexKeys(details_df)) :
                  outcome' = [kind  |-> "ValueError",
                              msg   |-> "No cells written: row or column mismatch.",
                              value |-> 0,
                              info  |-> MismatchInfo(details_df, row_map, col_map,
                                                     sample_sheet, sample_df)]
       ELSE /\ fpc' = "mkstemp"
            /\ UNCHANGED outcome
    /\ UNCHANGED <<target, target0, tmp_file, details_df, row_map, col_map, wb, key_pos, written>>

fillLocals == <<target0, details_df, row_map, col_map, wb, key_pos, written>>

\* line 551: tempfile.mkstemp creates an empty file next to the target
Mkstemp ==
    /\ fpc = "mkstemp"
    /\ tmp_file' = EmptyFile
    /\ fpc' = "save"
    /\ UNCHANGED <<target, outcome, fillLocals>>

\* line 551 raising (outside the try): nothing was created
MkstempFails ==
    /\ fpc = "mkstemp"
    /\ fpc' = "raised"
    /\ outcome' = Raised("OSError", "mkstemp")
    /\ UNCHANGED <<target, tmp_file, fillLocals>>

\* the file wb.save writes to receives content
SaveInto(content) ==
    IF SaveDestination = "tmp_path"
    THEN tmp_file' = content /\ UNCHANGED target
    ELSE target' = content /\ UNCHANGED tmp_file

\* line 554: wb.save has opened its file and written part of the workbook
SaveBegin ==
    /\ fpc = "save"
    /\ SaveInto(PartialFile)
    /\ fpc' = "saving"
    /\ UNCHANGED <<outcome, fillLocals>>

\* line 554: wb.save has written the whole workbook
SaveEnd ==
    /\ fpc = "saving"
    /\ SaveInto(Complete(wb))
    /\ fpc' = "replace"
    /\ UNCHANGED <<outcome, fillLocals>>

\* except Exception: the exception the handler of lines 556-562 holds
Caught(msg) == [kind |-> "caught", msg |-> msg, value |-> 0, info |-> NoInfo]

\* the handler ending with a return of the count instead of the raise
Reraise_returns_count(exc) == Returned(0)

\* line 562: raise, the exception the handler holds goes to the caller
Reraise(exc) == Raised("OSError", exc.msg)

\* line 554 raising, before or after writing part of the file
SaveFails ==
    /\ fpc \in {"save", "saving"}
    /\ fpc' = "cleanup"
    /\ outcome' = Caught("wb.save")
    /\ UNCHANGED <<target, tmp_file, fillLocals>>

\* line 555: os.replace renames the temporary file onto the target in one step
OsReplace ==
    /\ fpc = "replace"
    /\ target' = tmp_file
    /\ tmp_file' = Absent
    /\ fpc' = "return"
    /\ UNCHANGED <<outcome, fillLocals>>

\* line 555 raising: nothing was renamed
ReplaceFails ==
    /\ fpc = "replace"
    /\ fpc' = "cleanup"
    /\ outcome' = Caught("os.replace")
    /\ UNCHANGED <<target, tmp_file, fillLocals>>

\* lines 556-562: unlink the temporary file if it exists (an OSError of the
\* unlink is passed over), then re-raise
Cleanup ==
    /\ fpc = "cleanup"
    /\ \/ tmp_file' = Absent
       \/ tmp_file # Absent /\ UNCHANGED tmp_file
    /\ fpc' = "raised"
    /\ outcome' = Reraise(outcome)
    /\ UNCHANGED <<target, fillLocals>>

\* line 563
Return ==
    /\ fpc = "return"
    /\ fpc' = "returned"
    /\ outcome' = Returned(written)
    /\ UNCHANGED <<target, tmp_file, fillLocals>>

\* the process is killed between two statements: the files stay as they are
Crash ==
    /\ fpc \in {"start", "loop", "mkstemp", "save", "saving", "replace", "return", "cleanup"}
    /\ fpc' = "crashed"
    /\ UNCHANGED <<target, tmp_file, outcome, fillLocals>>

notFill == <<normVars, parseVars, cmpVars>>

FillNext ==
    \/ FillStart /\ UNCHANGED notFill
    \/ FillKey /\ UNCHANGED notFill
    \/ FillCheck /\ UNCHANGED notFill
    \/ Mkstemp /\ UNCHANGED notFill
    \/ MkstempFails /\ UNCHANGED notFill
    \/ SaveBegin /\ UNCHANGED notFill
    \/ SaveEnd /\ UNCHANGED notFill
    \/ SaveFails /\ UNCHANGED notFill
    \/ OsReplace /\ UNCHANGED notFill
    \/ ReplaceFails /\ UNCHANGED notFill
    \/ Cleanup /\ UNCHANGED notFill
    \/ Return /\ UNCHANGED notFill
    \/ Crash /\ UNCHANGED notFill

SpecFill == FillInit /\ [][FillNext]_vars

---------------------------------------------------------------------------
(* compare_details and compare_drugs called on two tables                  *)

CmpInit ==
    /\ \/ cpc = "details" /\ old_df \in DetailsCmpTables /\ new_df \in DetailsCmpTables
       \/ cpc = "drugs" /\ old_df \in DrugsCmpTables /\ new_df \in DrugsCmpTables
    /\ comparison = NoComparison
    /\ NormIdle /\ ParseIdle /\ FillIdle

CompareDetails ==
    /\ cpc = "details"
    /\ comparison' = [raised |-> FALSE, error |-> "", df |-> compare_details(old_df, new_df)]
    /\ cpc' = "details_done"
    /\ UNCHANGED <<old_df, new_df>>

CompareDrugs ==
    /\ cpc = "drugs"
    /\ comparison' = compare_drugs(old_df, new_df)
    /\ cpc' = "drugs_done"
    /\ UNCHANGED <<old_df, new_df>>

notCmp == <<normVars, parseVars, fillVars>>

CmpNext ==
    \/ CompareDetails /\ UNCHANGED notCmp
    \/ CompareDrugs /\ UNCHANGED notCmp

SpecCmp == CmpInit /\ [][CmpNext]_vars

---------------------------------------------------------------------------
(* Properties of the extractor                                             *)

\* the pass that produced the rows collected so far
FallbackRan == \E k \in 1..Len(classified) : classified[k].pass = "fallback"
KeyColumn == IF FallbackRan THEN 0 ELSE type_col_idx

\* the label, as read from the sheet, of the row a record came from
RawLabelOf(g, keycol, rec) == PyStr(iloc(g, rec.src, keycol))

\* the sheet rows the primary pass took for data rows while no section was set
DataClasses == {"data", "data_no_section", "data_excluded"}
UnsectionedDataRows ==
    { classified[k].row : k \in { n \in 1..Len(classified) :
        /\ classified[n].pass = "primary"
        /\ classified[n].cls \in DataClasses
        /\ classified[n].sec = None } }

RecordSources(rs) == { rs[k].src : k \in 1..Len(rs) }

(* C1: exclusion is absorbing.  No key of an extracted Record table --      *)
(* parse_details_sheet in either pass, parse_american_hospital_excel --    *)
(* comes from a raw label that normalize_drug_name maps to the exclude     *)
(* sentinel None, whatever the row's numeric cells are.                    *)
C1_ExclusionAbsorbing ==
    ppc = "done" =>
        /\ \A k \in 1..Len(result.rows) :
              normalize_drug_name(RawLabelOf(df_raw, KeyColumn, result.rows[k])) # None
        /\ LET h == FindDrugHeader(df_raw)
               o == parse_american_hospital_excel(df_raw)
           IN \A k \in 1..Len(o.df.rows) :
                 normalize_drug_name(RawLabelOf(df_raw, h.drug_col_idx, o.df.rows[k])) # None

\* an excluded label with numeric cells was read below a section header
C1_ExcludedLabelRead ==
    /\ ppc = "done"
    /\ \E k \in 1..Len(classified) :
          /\ classified[k].pass = "primary"
          /\ classified[k].cls \in {"data", "data_excluded"}
          /\ normalize_drug_name(PyStr(iloc(df_raw, classified[k].row, type_col_idx))) = None

(* C2: section attribution.  A row that parse_details_sheet takes for a    *)
(* data row while no section header has been seen never appears in the     *)
(* returned Record table.                                                  *)
C2_UnsectionedNeverReturned ==
    ppc = "done" => UnsectionedDataRows \cap RecordSources(result.rows) = {}

(* C2 as amended: such a row adds no record during the primary pass, and   *)
(* the returned table holds it only when the primary pass produced no      *)
(* record at all and the fallback pass read the sheet again.               *)
C2_UnsectionedOnlyViaFallback ==
    /\ ~FallbackRan => UnsectionedDataRows \cap RecordSources(rows) = {}
    /\ ppc = "done" /\ UnsectionedDataRows \cap RecordSources(result.rows) # {} => FallbackRan

\* a record of the documented scenario: entity Widget A under banner sec,
\* read from sheet row src, with the three metric values
ScenarioRecord(sec, src, m1, m2, m3) ==
    [key  |-> <<sec, "Widget A">>,
     cols |-> <<"Metric1", "Metric2", "Metric3">>,
     vals |-> ("Metric1" :> Num(m1)) @@ ("Metric2" :> Num(m2)) @@ ("Metric3" :> Num(m3)),
     src  |-> src]

ScenarioTable(x, y) ==
    [rows |-> << ScenarioRecord(x, 4, 10, 2, 8), ScenarioRecord(y, 7, 0, 0, 0) >>,
     cols |-> <<"Metric1", "Metric2", "Metric3">>]

\* the header label of sheet column j, as the code reads it
HeaderLabel(g, hr, j) ==
    IF notna(iloc(g, hr, j)) THEN Strip(PyStr(iloc(g, hr, j))) ELSE ""

\* rec holds, under every header label right of the key column, the float of
\* the cell of sheet row r in the last column carrying that label
HoldsCellsOf(rec, g, hr, tc, r) ==
    \A j \in (tc + 1)..(NCols(g) - 1) :
        LET h == HeaderLabel(g, hr, j) IN
        h # "" =>
            /\ h \in DOMAIN rec.vals
            /\ (\A j2 \in (j + 1)..(NCols(g) - 1) : HeaderLabel(g, hr, j2) # h)
                  => rec.vals[h] = Num(FloatOrZero(iloc(g, r, j)))

(* C8: extraction of a sheet whose header row is at index 2 and key column *)
(* 0, with section-banner rows that have blank metric cells followed by    *)
(* entity rows, yields one record per entity row keyed by (banner label,   *)
(* entity name) with the cell values under the header labels; for the      *)
(* documented grid the result is exactly (Category X, Widget A) ->         *)
(* {Metric1:10, Metric2:2, Metric3:8} and (Category Y, Widget A) ->        *)
(* {Metric1:0, Metric2:0, Metric3:0}.                                      *)
C8_ScenarioAsWritten ==
    ppc = "done" /\ df_raw = ScenarioCategorySheet
        => result = ScenarioTable("Category X", "Category Y")

(* C8 as amended: every row the primary pass takes for a data row under a  *)
(* banner the section heuristics recognise, its label not being exactly    *)
(* "Other, please specify", yields one record keyed by (banner label,      *)
(* normalized entity name) holding the floats of its cells under the       *)
(* header labels.  With banners "Category X (SGA)" and "Category Y (SGA)"  *)
(* the documented grid yields exactly the two records; with the banners    *)
(* as written the primary pass yields nothing and the fallback pass        *)
(* returns the two keys without any metric column.                         *)
C8_ScenarioExtraction ==
    ppc = "done" =>
        /\ ~FallbackRan =>
              \A k \in 1..Len(classified) :
                 LET c == classified[k]
                     label == Strip(PyStr(iloc(df_raw, c.row, type_col_idx)))
                 IN c.cls \in DataClasses /\ c.sec # None /\ label # "Other, please specify"
                    => /\ Cardinality({ n \in 1..Len(result.rows) : result.rows[n].src = c.row }) = 1
                       /\ \E n \in 1..Len(result.rows) :
                             /\ result.rows[n].src = c.row
                             /\ result.rows[n].key = <<c.sec, DetailsTypeKey(label)>>
                             /\ HoldsCellsOf(result.rows[n], df_raw, header_row, type_col_idx, c.row)
        /\ df_raw = ScenarioSectionSheet
              => result = ScenarioTable("Category X (SGA)", "Category Y (SGA)")
        /\ df_raw = ScenarioCategorySheet
              => /\ FallbackRan
                 /\ result.cols = <<>>
                 /\ [n \in 1..Len(result.rows) |-> result.rows[n].key]
                      = << <<"Category X", "Widget A">>, <<"Category Y", "Widget A">> >>

\* the documented grid with recognised banners was extracted, header at index 2
C8_ScenarioExtracted ==
    /\ ppc = "done"
    /\ df_raw = ScenarioSectionSheet
    /\ header_row = 2 /\ type_col_idx = 0
    /\ Len(result.rows) = 2

---------------------------------------------------------------------------
(* Properties of the write-back                                            *)

RECURSIVE ValuesAt(_, _, _)
\* the values a table's rows hold under one key and column, in row order
ValuesAt(rs, key, col) ==
    IF rs = <<>> THEN <<>>
    ELSE (IF rs[1].key = key THEN <<rs[1].vals[col]>> ELSE <<>>) \o ValuesAt(Tail(rs), key, col)

\* the call was handed the extraction of its own target sheet
WritesBackOwnExtraction == details_df = parse_details_sheet(target0.grid)

\* the (key, column) pair resolves to a cell of the target sheet
Matched(key, col) ==
    _row_key_for(row_map, key) # NoRow /\ ColIdx(col_map, col) # NoCol

KeysRepeat(df) == \E key \in IndexKeys(df) : Cardinality(RowsAt(df, key)) > 1

(* C4: write-back round trip.  Extracting a sheet with                     *)
(* parse_details_sheet, writing the same Record table back with            *)
(* fill_details_sheet_to_excel, then re-extracting yields, for every       *)
(* (key, metric) pair whose row and column were matched, the same numeric  *)
(* value as the first extraction.                                          *)
C4_RoundTrip ==
    fpc = "returned" /\ WritesBackOwnExtraction =>
        LET again == parse_details_sheet(target.grid) IN
        \A key \in IndexKeys(details_df) : \A n \in 1..Len(details_df.cols) :
            LET col == details_df.cols[n] IN
            Matched(key, col) =>
                /\ key \in IndexKeys(again)
                /\ col \in SeqToSet(again.cols)
                /\ ValuesAt(again.rows, key, col) = ValuesAt(details_df.rows, key, col)

\* an extraction with a repeated key was written back to its own sheet
C4_RepeatedKeyWrittenBack ==
    fpc = "returned" /\ WritesBackOwnExtraction /\ KeysRepeat(details_df)

BeforeReplace == {"start", "loop", "mkstemp", "save", "saving", "replace", "cleanup", "raised"}
AfterReplace == {"return", "returned"}
Persisting == {"mkstemp", "save", "saving", "replace", "cleanup", "return", "returned"}

(* C5: atomic replace.  At every point of a fill_details_sheet_to_excel    *)
(* call the target file holds either its complete pre-call content or the  *)
(* complete new workbook; a failure or crash after the temporary file is   *)
(* written but before the replace leaves the target identical to its       *)
(* pre-write state.                                                        *)
C5_AtomicReplace ==
    fpc # "idle" =>
        /\ target.state = "complete"
        /\ target = target0 \/ target = Complete(wb)
        /\ fpc \in BeforeReplace => target = target0
        /\ fpc \in AfterReplace => target = Complete(wb)
        /\ fpc = "crashed" /\ tmp_file # Absent => target = target0

\* the call crashed with the whole new workbook in the temporary file, not yet
\* renamed onto the target
C5_CrashBeforeReplace ==
    /\ fpc = "crashed"
    /\ tmp_file = Complete(wb)
    /\ wb # target0.grid
    /\ target = target0

MismatchMessage == "No cells written: row or column mismatch."
MismatchRaised == fpc = "raised" /\ outcome.msg = MismatchMessage
LoopDone == fpc \notin {"idle", "start", "loop"} /\ key_pos > Len(details_df.rows)

(* C6: total write-back failure is loud.  If after attempting every (key,  *)
(* column) pair zero cells were written, fill_details_sheet_to_excel       *)
(* raises an error carrying counts and samples of the keys/columns on both *)
(* sides, and the target file is not modified.  Read to the letter: the    *)
(* error carries a sample of the data's columns as it does of the sheet's. *)
C6_SamplesOfColumnsOnBothSides ==
    MismatchRaised =>
        /\ "sheet_cols" \in DOMAIN outcome.info
        /\ "df_cols" \in DOMAIN outcome.info

(* C6 as amended: a call that wrote zero cells never creates a temporary   *)
(* file nor replaces the target; it raises the mismatch error, which       *)
(* carries the counts of keys on both sides, the counts of the data's      *)
(* columns, of those matched and of the sheet's columns, up to 3 sample    *)
(* keys of each side and the sheet's first 5 columns, and leaves the       *)
(* target file as it was.                                                  *)
C6_TotalFailureLoud ==
    /\ fpc \in Persisting => written > 0
    /\ LoopDone /\ written = 0 /\ fpc # "crashed" => MismatchRaised
    /\ MismatchRaised =>
          /\ written = 0
          /\ outcome.kind = "ValueError"
          /\ outcome.info.n_df_keys = Cardinality(IndexKeys(details_df))
          /\ outcome.info.n_sheet_keys = Cardinality(DictKeys(row_map))
          /\ outcome.info.n_df_cols = Len(details_df.cols)
          /\ outcome.info.n_sheet_cols = Cardinality(DictKeys(col_map))
          /\ outcome.info.cols_matched =
                Cardinality({ n \in 1..Len(details_df.cols) :
                                DictHas(col_map, Strip(details_df.cols[n])) })
          /\ outcome.info.sample_sheet \subseteq DictKeys(row_map)
          /\ Cardinality(outcome.info.sample_sheet) = Min(3, Cardinality(DictKeys(row_map)))
          /\ outcome.info.sample_df \subseteq IndexKeys(details_df)
          /\ Cardinality(outcome.info.sample_df) = Min(3, Cardinality(IndexKeys(details_df)))
          /\ SeqToSet(outcome.info.sheet_cols) \subseteq DictKeys(col_map)
          /\ Len(outcome.info.sheet_cols) = Min(5, Len(col_map))
          /\ target = target0
          /\ tmp_file = Absent

\* the loop ran over a table none of whose pairs resolved, and the call raised
C6_NothingWrittenRaised ==
    /\ MismatchRaised
    /\ written = 0
    /\ Len(details_df.rows) > 0
    /\ row_map # <<>> /\ col_map # <<>>

\* some (key, column) pair of the table resolves to a cell of the target
SomePairResolves ==
    \E pos \in 1..Len(details_df.rows) : \E n \in 1..Len(details_df.cols) :
        Matched(details_df.rows[pos].key, details_df.cols[n])

SomePairUnresolved ==
    \E pos \in 1..Len(details_df.rows) : \E n \in 1..Len(details_df.cols) :
        ~Matched(details_df.rows[pos].key, details_df.cols[n])

(* C7: partial write-back success is not an error.  Whenever at least one  *)
(* (key, column) pair of the Record table resolves to a target cell,       *)
(* fill_details_sheet_to_excel raises no mismatch error even though other  *)
(* keys or columns are unmatched; it goes on to persist the file and, the  *)
(* persistence not failing, returns the count with the new workbook in the *)
(* target file.                                                            *)
C7_PartialSuccessNoError ==
    /\ LoopDone /\ SomePairResolves =>
          /\ written >= 1
          /\ ~MismatchRaised
          /\ fpc \in Persisting \cup {"crashed"} \/ (fpc = "raised" /\ outcome.kind = "OSError")
    /\ fpc = "returned" =>
          /\ outcome = Returned(written)
          /\ written >= 1
          /\ target = Complete(wb)
          /\ tmp_file = Absent

\* a call returned its count although a key or a column found no cell
C7_PartialReturned ==
    /\ fpc = "returned"
    /\ SomePairResolves
    /\ SomePairUnresolved
    /\ outcome.value = written

---------------------------------------------------------------------------
(* Properties of the reconciler                                            *)

CmpDone == cpc \in {"details_done", "drugs_done"}
UnionKeys == IndexKeys(old_df) \cup IndexKeys(new_df)

\* the column pairs and the metric names of the function that was called
PairsUsed ==
    IF cpc = "details_done" THEN DetailsColPairs(old_df, new_df) ELSE DrugsColPairs(old_df, new_df)
MetricOf(old_col) ==
    IF cpc = "details_done" THEN DetailsMetric(old_col) ELSE DrugsMetric(old_col)

\* the comparison has exactly one row for every key of the union, no other
OneRowPerKey ==
    /\ IndexKeys(comparison.df) = UnionKeys
    /\ \A key \in UnionKeys : Cardinality(RowsAt(comparison.df, key)) = 1

HasMetric(row, m) ==
    {m \o "_old", m \o "_new", m \o "_change"} \subseteq DOMAIN row.vals

DetailsReturnsEmpty == IsEmptyDF(old_df) /\ IsEmptyDF(new_df)
DrugsRaises ==
    \/ UnionKeys = {}
    \/ DrugsColPairs(old_df, new_df) # <<>> /\ (KeysRepeat(old_df) \/ KeysRepeat(new_df))

TotalMetric == "Total patients treated in the last "

(* C9: when the old table holds a metric under a known 12-month label and  *)
(* the new table holds the corresponding 6-month label, compare_details    *)
(* pairs the two columns and, for a key present in both tables, emits the  *)
(* old value, the new value and change = new - old in the metric's _old,   *)
(* _new and _change fields (old 100 and new 60 give 100, 60, -40).         *)
C9_KnownLabelPairing ==
    cpc = "details_done" /\ Total12 \in SeqToSet(old_df.cols) /\ Total6 \in SeqToSet(new_df.cols) =>
        \A key \in IndexKeys(old_df) \cap IndexKeys(new_df) :
            ~IsSeriesAt(old_df, key) /\ ~IsSeriesAt(new_df, key) =>
                LET old_val == ZeroIfNaN(ScalarAt(old_df, key, Total12))
                    new_val == ZeroIfNaN(ScalarAt(new_df, key, Total6))
                IN \E k \in 1..Len(comparison.df.rows) :
                      LET row == comparison.df.rows[k] IN
                      /\ row.key = key
                      /\ HasMetric(row, TotalMetric)
                      /\ row.vals[TotalMetric \o "_old"] = Num(old_val)
                      /\ row.vals[TotalMetric \o "_new"] = Num(new_val)
                      /\ row.vals[TotalMetric \o "_change"] = Num(new_val - old_val)
                      /\ old_val = 100 /\ new_val = 60
                            => row.vals[TotalMetric \o "_change"] = Num(0 - 40)

\* the documented reconciliation: 100 under the 12-month label, 60 under the
\* 6-month label, compared as 100, 60, -40
C9_HundredAgainstSixty ==
    /\ cpc = "details_done"
    /\ \E k \in 1..Len(comparison.df.rows) :
          LET row == comparison.df.rows[k] IN
          /\ row.key = <<"CatX", "A">>
          /\ ~IsSeriesAt(old_df, row.key) /\ ~IsSeriesAt(new_df, row.key)
          /\ Total12 \in SeqToSet(old_df.cols) /\ Total6 \in SeqToSet(new_df.cols)
          /\ row.key \in IndexKeys(old_df) /\ ScalarAt(old_df, row.key, Total12) = Num(100)
          /\ row.key \in IndexKeys(new_df) /\ ScalarAt(new_df, row.key, Total6) = Num(60)
          /\ HasMetric(row, TotalMetric)
          /\ row.vals[TotalMetric \o "_old"] = Num(100)
          /\ row.vals[TotalMetric \o "_new"] = Num(60)
          /\ row.vals[TotalMetric \o "_change"] = Num(0 - 40)

(* C10: idempotence of normalization. For every raw label x for which     *)
(* normalize_drug_name(x) returns a name c rather than None,               *)
(* normalize_drug_name(c) = c.  Renormalize stores c in name and the       *)
(* second result in canonical.                                             *)
C10_Idempotent == npc = "renormalized" => canonical = name

\* a variant spelling was mapped to the canonical name, which was normalized again
C10_AliasRenormalized ==
    npc = "renormalized" /\ name = "Ngenla (Pfizer)" /\ canonical = "Ngenla (Pfizer)"

\* a data row met before any section was dropped from a non-empty primary result
C2_UnsectionedDropped ==
    /\ ppc = "done"
    /\ ~FallbackRan
    /\ UnsectionedDataRows # {}
    /\ Len(result.rows) > 0

---------------------------------------------------------------------------
(* Properties of the row classifier                                        *)

SectionClasses == {"section"}
SkipClasses == {"blank", "skip", "other"}

\* the section in force after the k-th classified row
SectionAfter(k) ==
    IF k < Len(classified) /\ classified[k + 1].pass = classified[k].pass
    THEN classified[k + 1].sec
    ELSE IF classified[k].pass = "primary" THEN current_indication
    ELSE current_indication_fb

\* the stripped label of sheet row r in the key column
LabelAt(r) == Strip(PyStr(iloc(df_raw, r, type_col_idx)))

(* C11: classifier totality.  During the walk over the rows below the      *)
(* header every row is classified into exactly one of data, section header *)
(* and skip: each row walked has one entry, none has two, and what the row *)
(* did agrees with its one class -- only a data row adds a record, only a  *)
(* section header changes the current section.                             *)
C11_ClassifierTotal ==
    ppc = "primary" =>
        /\ Len(classified) = i - (header_row + 1)
        /\ \A r \in (header_row + 1)..(i - 1) :
              Cardinality({ k \in 1..Len(classified) : classified[k].row = r }) = 1
        /\ \A k \in 1..Len(classified) :
              LET e == classified[k]
                  emitted == e.row \in RecordSources(rows)
              IN /\ e.cls \in DataClasses \cup SectionClasses \cup SkipClasses
                 /\ e.cls \in DataClasses => SectionAfter(k) = e.sec
                 /\ e.cls \in SectionClasses => ~emitted /\ SectionAfter(k) = LabelAt(e.row)
                 /\ e.cls \in SkipClasses => ~emitted /\ SectionAfter(k) = e.sec
                 /\ emitted => e.cls = "data"

\* the walk is over and met a section header, a data row and a skipped row,
\* all three with a label in the key column
C11_AllThreeClassesMet ==
    /\ ppc = "primary" /\ i = NRows(df_raw)
    /\ \E a, b, c \in 1..Len(classified) :
          /\ classified[a].cls = "section"
          /\ classified[b].cls = "data"
          /\ classified[c].cls \in {"skip", "other"}
          /\ notna(iloc(df_raw, classified[c].row, type_col_idx))

---------------------------------------------------------------------------
(* Properties of the normalizer                                            *)

\* the positions of the alias table whose pattern matches the trimmed label
\* by containment or by the pattern's first AliasPrefixLen characters
MatchingEntries(s) ==
    { n \in 1..Len(DRUG_ALIASES) :
        \/ Contains(DRUG_ALIASES[n].alias, s)
        \/ StartsWith(s, SubSeq(DRUG_ALIASES[n].alias, 1,
                                Min(AliasPrefixLen, Len(DRUG_ALIASES[n].alias)))) }

(* C12: first match wins.  normalize_drug_name returns the result of the   *)
(* first alias-table entry, in table order, whose pattern matches the      *)
(* trimmed label by containment or by 20-character prefix, later matching  *)
(* entries being ignored ('Other, please specify' yields None although the *)
(* later entry 'Other' matches too); a label matching no entry is returned *)
(* trimmed and unchanged, or as None when empty.                           *)
C12_FirstMatchWins ==
    npc = "returned" =>
        LET s == Strip(name)
            hits == MatchingEntries(s)
        IN /\ hits # {} =>
                 canonical = DRUG_ALIASES[CHOOSE n \in hits : \A m \in hits : n <= m].canonical
           /\ hits = {} => canonical = (IF s = "" THEN None ELSE s)
           /\ s = "Other, please specify" => canonical = None

\* a label matched by two entries with different results was normalized to
\* the result of the earlier one
C12_EarlierOfTwoMatches ==
    /\ npc = "returned"
    /\ Strip(name) = "Other, please specify"
    /\ Cardinality(MatchingEntries(Strip(name))) = 2
    /\ canonical = None

---------------------------------------------------------------------------
(* Properties of the extraction functions on sheets without a table        *)

\* the sheet has fewer than two rows, or no header cell in the scan window
NoDetailsHeader == NRows(df_raw) < 2 \/ ~FindHeader(df_raw).found
NoDrugHeader == NRows(df_raw) < 2 \/ ~FindDrugHeader(df_raw).found

(* C13: when no header keyword is found within the scan window, or the     *)
(* grid has fewer than 2 rows, every extraction function                   *)
(* (parse_details_sheet, get_details_sheet_row_col_map,                    *)
(* parse_american_hospital_excel) returns an explicit empty result and     *)
(* does not raise.                                                         *)
C13_EmptyResultNoRaise ==
    ppc = "done" =>
        /\ NoDetailsHeader =>
              /\ result = EmptyDF
              /\ get_details_sheet_row_col_map(df_raw) = EmptyMaps
        /\ NoDrugHeader =>
              LET o == parse_american_hospital_excel(df_raw)
              IN ~o.raised /\ o.df = EmptyDF

\* a sheet of two rows or more without any header keyword was read to the end
C13_UnheadedSheetRead ==
    /\ ppc = "done"
    /\ NRows(df_raw) >= 2
    /\ ~FindHeader(df_raw).found
    /\ ~FindDrugHeader(df_raw).found
    /\ result = EmptyDF
    /\ parse_american_hospital_excel(df_raw).raised

\* the sheet is one the fallback pass reads: two rows and two columns at least
FallbackReadable == NRows(df_raw) >= 2 /\ NCols(df_raw) >= 2

\* some row below row 0 is one the fallback pass makes a record of
FallbackDataRowExists ==
    \E r \in 1..(NRows(df_raw) - 1) : FallbackRow(df_raw, FallbackSection, r).cls = "data"

(* C14: whenever the primary pass yields zero records, including when no   *)
(* header keyword matched within the scan window, parse_details_sheet runs *)
(* the fallback pass (header row 0, key column 0) on the grid, so a sheet  *)
(* with no header keyword, at least 2 rows and 2 columns and a             *)
(* numeric-bearing row yields records from the fallback pass.              *)
C14_FallbackAfterEmptyPrimary ==
    ppc = "done" /\ FallbackReadable =>
        /\ ~FallbackRan => rows # <<>>
        /\ ~FindHeader(df_raw).found /\ FallbackDataRowExists => Len(result.rows) > 0

\* a sheet with a header keyword whose primary pass gave nothing was read
\* again by the fallback pass, while one without a header keyword, with a
\* numeric-bearing row, came back empty
C14_UnheadedSheetGaveNothing ==
    /\ ppc = "done" /\ FallbackReadable
    /\ ~FindHeader(df_raw).found
    /\ FallbackDataRowExists
    /\ ~FallbackRan
    /\ result = EmptyDF

\* with a header keyword found, an empty primary pass is followed by the
\* fallback pass
C14_HeadedSheetFallsBack ==
    ppc = "done" /\ FallbackReadable /\ FindHeader(df_raw).found /\ ~FallbackRan => rows # <<>>

---------------------------------------------------------------------------
(* Properties of the Record table                                          *)

(* C15: key uniqueness.  In the Record table returned by                   *)
(* parse_details_sheet each (Section, CanonicalName) key occurs at most    *)
(* once; when two data rows of one section normalize to the same name      *)
(* ('Other' and 'Ngenla (Pfizer)') the later row overwrites the earlier    *)
(* one instead of adding a duplicate.                                      *)
C15_KeysUnique ==
    ppc = "done" =>
        /\ \A a, b \in 1..Len(result.rows) :
              result.rows[a].key = result.rows[b].key => a = b
        /\ \A a \in 1..Len(result.rows) : \A b \in 1..Len(rows) :
              rows[b].key = result.rows[a].key => rows[b].src <= result.rows[a].src

\* the rows 'Other' and 'Ngenla (Pfizer)' of one section were both read
C15_TwoRowsOneName ==
    /\ ppc = "done"
    /\ \E a, b \in 1..Len(rows) :
          /\ rows[a].src < rows[b].src
          /\ rows[a].key = rows[b].key
          /\ rows[a].key[2] = "Ngenla (Pfizer)"
          /\ LabelAt(rows[a].src) # LabelAt(rows[b].src)

\* every value of every record of the table is a number
AllNumbers(df) ==
    \A k \in 1..Len(df.rows) : \A c \in DOMAIN df.rows[k].vals : df.rows[k].vals[c].t = "num"

\* a cell that is blank or whose text is no number
BlankOrText(c) == isna(c) \/ (c.t = "str" /\ ~IsFloatText(c.s))

\* the header row the returned records were read under
HeaderRowUsed == IF FallbackRan THEN 0 ELSE header_row

\* the records of parse_details_sheet hold 0.0 where the sheet row has a
\* blank or non-numeric cell under a header label
DetailsBlanksAreZero ==
    \A k \in 1..Len(result.rows) :
        LET rec == result.rows[k] IN
        \A j \in (KeyColumn + 1)..(NCols(df_raw) - 1) :
            LET h == HeaderLabel(df_raw, HeaderRowUsed, j) IN
            /\ h # ""
            /\ \A j2 \in (j + 1)..(NCols(df_raw) - 1) : HeaderLabel(df_raw, HeaderRowUsed, j2) # h
            /\ BlankOrText(iloc(df_raw, rec.src, j))
            => h \in DOMAIN rec.vals /\ rec.vals[h] = Num(0)

(* C16: every metric value of every record in an extracted Record table    *)
(* (keyed by (Section, CanonicalName) or by CanonicalName alone) is a      *)
(* number and never null: a blank or non-numeric cell of an accepted data  *)
(* row is stored as 0.0.                                                   *)
C16_ValuesNeverNull ==
    ppc = "done" =>
        /\ AllNumbers(result)
        /\ DetailsBlanksAreZero
        /\ AllNumbers(parse_american_hospital_excel(df_raw).df)

\* a record of each table was read from a row with a blank metric cell
C16_BlankCellRead ==
    /\ ppc = "done"
    /\ \E k \in 1..Len(result.rows) : \E j \in (KeyColumn + 1)..(NCols(df_raw) - 1) :
          isna(iloc(df_raw, result.rows[k].src, j))
    /\ LET o == parse_american_hospital_excel(df_raw) IN
       \E k \in 1..Len(o.df.rows) : \E c \in DOMAIN o.df.rows[k].vals :
          isna(o.df.rows[k].vals[c])

\* the part of C16 that is about parse_details_sheet
C16_DetailsValuesNeverNull ==
    ppc = "done" => AllNumbers(result) /\ DetailsBlanksAreZero

---------------------------------------------------------------------------
(* Properties of the reconciler on disjoint key sets                       *)

DisjointKeys == IndexKeys(old_df) \cap IndexKeys(new_df) = {}

(* C17: the Reconciler is total.  For any two Record tables whose key sets *)
(* are disjoint, one or both possibly empty, compare_details and           *)
(* compare_drugs return a comparison table over the union of the keys and  *)
(* never raise.                                                            *)
C17_TotalOnDisjointKeys ==
    CmpDone /\ DisjointKeys => ~comparison.raised /\ OneRowPerKey

\* compare_drugs was called on two tables without rows and raised
C17_BothEmptyRaised ==
    /\ cpc = "drugs_done"
    /\ old_df = EmptyDF /\ new_df = EmptyDF
    /\ comparison.raised /\ comparison.error = "KeyError"

\* the part of C17 that holds: tables with metric columns, keys that are
\* disjoint and occur once, at least one of them
C17_TotalOnDisjointUniqueKeys ==
    /\ CmpDone /\ DisjointKeys /\ UnionKeys # {}
    /\ ~KeysRepeat(old_df) /\ ~KeysRepeat(new_df)
    /\ ~(cpc = "details_done" /\ DetailsReturnsEmpty)
    => ~comparison.raised /\ OneRowPerKey

---------------------------------------------------------------------------
(* Properties of the count returned by the write-back                      *)

\* the sheet cells (row, column) the loop of lines 509-533 writes for the
\* index entry at position pos
CellsOfEntry(df, pos, rm, cm) ==
    LET row_i == _row_key_for(rm, df.rows[pos].key) IN
    IF row_i = NoRow THEN {}
    ELSE { <<row_i, ColIdx(cm, df.cols[j])>> :
             j \in { n \in 1..Len(df.cols) : ColIdx(cm, df.cols[n]) # NoCol } }

\* the distinct cells written by the iterations done so far
CellsWritten ==
    UNION { CellsOfEntry(details_df, pos, row_map, col_map) : pos \in 1..(key_pos - 1) }

\* two index entries of details_df are written to one sheet row
EntriesShareRow ==
    \E a, b \in 1..Len(details_df.rows) :
        /\ a < b
        /\ CellsOfEntry(details_df, a, row_map, col_map)
              \cap CellsOfEntry(details_df, b, row_map, col_map) # {}

(* C18: the integer returned by fill_details_sheet_to_excel equals the     *)
(* number of distinct cells of the target sheet whose value was written by *)
(* the call, for every Record table and target sheet.                      *)
C18_CountsDistinctCells ==
    fpc = "returned" => outcome.value = Cardinality(CellsWritten)

\* a table with unique keys, two of which were written to one row, returned
C18_TwoKeysOneRow ==
    /\ fpc = "returned"
    /\ ~KeysRepeat(details_df)
    /\ EntriesShareRow
    /\ outcome.value > Cardinality(CellsWritten)

\* the part of C18 that holds: no two index entries share a sheet row and no
\* two columns of the table share a sheet column
C18_CountsCellsOfSeparateEntries ==
    /\ fpc = "returned"
    /\ ~EntriesShareRow
    /\ \A a, b \in 1..Len(details_df.cols) :
          a # b /\ ColIdx(col_map, details_df.cols[a]) # NoCol
          => ColIdx(col_map, details_df.cols[a]) # ColIdx(col_map, details_df.cols[b])
    => outcome.value = Cardinality(CellsWritten)

---------------------------------------------------------------------------
(* Properties of the current section during the primary pass               *)

\* the rows of the primary pass classified as section headers above sheet row r
SectionRowsAbove(r) ==
    { classified[k].row : k \in { n \in 1..Len(classified) :
                                    /\ classified[n].pass = "primary"
                                    /\ classified[n].cls \in SectionClasses
                                    /\ classified[n].row < r } }

\* the label of the nearest of them, None without one
NearestSectionAbove(r) ==
    IF SectionRowsAbove(r) = {} THEN None
    ELSE LabelAt(CHOOSE q \in SectionRowsAbove(r) : \A p \in SectionRowsAbove(r) : p <= q)

(* C19: section lifecycle.  At every step of the primary pass the current  *)
(* section is the label of the most recent row classified as a section     *)
(* header, unset if there is none; skip rows and data rows -- also those   *)
(* with a number whose label looks like a section header -- leave it       *)
(* unchanged, and each record's section is the label of the nearest        *)
(* section-header row above its row.                                       *)
C19_SectionLifecycle ==
    ppc = "primary" =>
        /\ current_indication = NearestSectionAbove(i)
        /\ \A k \in 1..Len(classified) :
              /\ classified[k].sec = NearestSectionAbove(classified[k].row)
              /\ classified[k].cls \notin SectionClasses => SectionAfter(k) = classified[k].sec
        /\ \A a \in 1..Len(rows) :
              /\ rows[a].key[1] # None
              /\ rows[a].key[1] = NearestSectionAbove(rows[a].src)

\* the walk is over: under a section header a row with a number and a label
\* that looks like a section header was read as data, and a record from a
\* row below it still carries the header's section
C19_SectionSurvivesNumericBanner ==
    /\ ppc = "primary" /\ i = NRows(df_raw)
    /\ \E a, b \in 1..Len(classified) : \E c \in 1..Len(rows) :
          /\ classified[a].cls = "section"
          /\ classified[b].cls = "data"
          /\ _looks_like_indication_section(LabelAt(classified[b].row))
          /\ classified[a].row < classified[b].row
          /\ classified[b].row < rows[c].src
          /\ rows[c].key[1] = LabelAt(classified[a].row)

\* the walk is over: a labelled row that was skipped stands between a section
\* header and a data row recorded under that header
C19_SectionSurvivesSkippedRow ==
    /\ ppc = "primary" /\ i = NRows(df_raw)
    /\ \E a, b \in 1..Len(classified) : \E c \in 1..Len(rows) :
          /\ classified[a].cls = "section"
          /\ classified[b].cls \in SkipClasses
          /\ notna(iloc(df_raw, classified[b].row, type_col_idx))
          /\ classified[a].row < classified[b].row
          /\ classified[b].row < rows[c].src
          /\ rows[c].key[1] = LabelAt(classified[a].row)

(* C20: no row whose label is a total/unique rollup label -- a label       *)
(* containing 'total patients' or 'unique' -- ever starts a new section:   *)
(* after such a row the current section is the same as before it.          *)
C20_RollupNeverStartsSection ==
    \A k \in 1..Len(classified) :
        LET low == Lower(LabelAt(classified[k].row)) IN
        /\ classified[k].pass = "primary"
        /\ Contains("total patients", low) \/ Contains("unique", low)
        => SectionAfter(k) = classified[k].sec

\* a row labelled 'UNIQUE patients' without numbers was walked under a
\* section and the current section is now its label
C20_UniqueRowBecameSection ==
    /\ ppc = "primary"
    /\ \E k \in 1..Len(classified) :
          /\ LabelAt(classified[k].row) = "UNIQUE patients"
          /\ classified[k].sec = "Small for Gestational Age (SGA)"
          /\ classified[k].cls = "section"
          /\ SectionAfter(k) = "UNIQUE patients"

\* the part of C20 that holds: a label containing 'total patients'
C20_TotalPatientsNeverStartsSection ==
    \A k \in 1..Len(classified) :
        /\ classified[k].pass = "primary"
        /\ Contains("total patients", Lower(LabelAt(classified[k].row)))
        => SectionAfter(k) = classified[k].sec

---------------------------------------------------------------------------
(* Properties of rollup rows and of unfilled rows in the primary pass      *)

\* a label containing 'total patients' or 'unique'
IsRollupLabel(s) == Contains("total patients", Lower(s)) \/ Contains("unique", Lower(s))

\* the k-th classified row was walked by the primary pass under a section
UnderSection(k) ==
    /\ classified[k].pass = "primary"
    /\ classified[k].sec # None /\ classified[k].sec # ""

(* C21: once a section has been set, a row whose label is a total/unique   *)
(* rollup label (e.g. 'Total patients (UNIQUE)') is never classified as a  *)
(* data row and produces no record, whether or not its metric cells hold   *)
(* numbers.                                                                *)
C21_RollupNeverData ==
    \A k \in 1..Len(classified) :
        UnderSection(k) /\ IsRollupLabel(LabelAt(classified[k].row))
        => /\ classified[k].cls \notin DataClasses
           /\ classified[k].row \notin RecordSources(rows)

\* the row 'Total patients (UNIQUE)' with numbers was walked under a section
\* and a record with that name was added
C21_NumericRollupRecorded ==
    /\ ppc = "primary"
    /\ \E k \in 1..Len(classified) : \E a \in 1..Len(rows) :
          /\ UnderSection(k)
          /\ LabelAt(classified[k].row) = "Total patients (UNIQUE)"
          /\ NumericBearing(df_raw, type_col_idx, classified[k].row)
          /\ classified[k].cls = "data"
          /\ rows[a].src = classified[k].row
          /\ rows[a].key = <<classified[k].sec, "Total patients (UNIQUE)">>

\* the part of C21 that holds: a rollup row without a number
C21_BlankRollupNeverData ==
    \A k \in 1..Len(classified) :
        /\ UnderSection(k) /\ IsRollupLabel(LabelAt(classified[k].row))
        /\ ~NumericBearing(df_raw, type_col_idx, classified[k].row)
        => /\ classified[k].cls \notin DataClasses
           /\ classified[k].row \notin RecordSources(rows)

\* the k-th classified row passed the tests of lines 241-247 (it has a label
\* the skip set does not hold) and has no number in the scanned cells
UnfilledRow(k) ==
    /\ UnderSection(k)
    /\ classified[k].cls \notin {"blank", "skip"}
    /\ ~NumericBearing(df_raw, type_col_idx, classified[k].row)

\* no cell right of the key column of sheet row r is numeric
NoNumericCell(r) ==
    \A j \in (type_col_idx + 1)..(NCols(df_raw) - 1) : ~_is_numeric_cell(iloc(df_raw, r, j))

\* the records added for sheet row r, all metrics 0.0, there is exactly one
OneZeroRecord(r) ==
    /\ Cardinality({ a \in 1..Len(rows) : rows[a].src = r }) = 1
    /\ \A a \in 1..Len(rows) :
          rows[a].src = r => \A h \in DOMAIN rows[a].vals : rows[a].vals[h] = Num(0)

\* C22 as stated: in the primary pass a row with no numeric cell is a data
\* row whenever a section is set and its label is neither a total/unique
\* label nor 'Other, please specify'; its record has every metric 0.0
C22_UnfilledAsStated ==
    ppc = "primary" =>
        \A k \in 1..Len(classified) :
            /\ UnfilledRow(k)
            /\ ~IsRollupLabel(LabelAt(classified[k].row))
            /\ LabelAt(classified[k].row) # "Other, please specify"
            => classified[k].cls = "data" /\ OneZeroRecord(classified[k].row)

(* C22 as amended: in the primary pass a row with a label the skip set     *)
(* does not hold and no numeric cell in the scanned cells right of the key *)
(* column is classified as a data row whenever a section is already set    *)
(* and its label neither looks like a section header (the test of          *)
(* _looks_like_indication_section, true for labels containing 'total       *)
(* patients' or 'unique' and for the section markers) nor is exactly       *)
(* 'Other, please specify'; one record is emitted for it, with 0.0 for     *)
(* every metric when the row has no numeric cell at all.                   *)
C22_UnfilledRowsAreData ==
    ppc = "primary" =>
        \A k \in 1..Len(classified) :
            /\ UnfilledRow(k)
            /\ ~_looks_like_indication_section(LabelAt(classified[k].row))
            /\ LabelAt(classified[k].row) # "Other, please specify"
            => /\ classified[k].cls = "data"
               /\ Cardinality({ a \in 1..Len(rows) : rows[a].src = classified[k].row }) = 1
               /\ NoNumericCell(classified[k].row) => OneZeroRecord(classified[k].row)

\* an unfilled 'Widget A' row was walked under a section and its record,
\* all zeros, was added
C22_UnfilledWidgetRecorded ==
    /\ ppc = "primary"
    /\ \E k \in 1..Len(classified) : \E a \in 1..Len(rows) :
          /\ UnfilledRow(k)
          /\ LabelAt(classified[k].row) = "Widget A"
          /\ isna(iloc(df_raw, classified[k].row, type_col_idx + 1))
          /\ rows[a].src = classified[k].row
          /\ rows[a].key = <<classified[k].sec, "Widget A">>
          /\ DOMAIN rows[a].vals # {}
          /\ \A h \in DOMAIN rows[a].vals : rows[a].vals[h] = Num(0)

---------------------------------------------------------------------------
(* Properties of the numeric-bearing test                                  *)

\* the farthest cell the test reads according to the specification: the
\* cell right of the key column and five further cells
SpecScanReach == 1 + 5

\* a numeric cell among the cells key column + 1 up to key column + reach
NumericWithin(r, reach) ==
    \E j \in (type_col_idx + 1)..Min(type_col_idx + reach, NCols(df_raw) - 1) :
        _is_numeric_cell(iloc(df_raw, r, j))

\* the sheet rows below the header row
BodyRowsOf == (header_row + 1)..(NRows(df_raw) - 1)

(* C23: a row is numeric-bearing exactly when the cell immediately right   *)
(* of the key column is numeric or one of the next five cells to its right *)
(* (key column + 2 up to key column + 6) is; a row whose only numeric cell *)
(* is at key column + 6 is numeric-bearing, and the extractor and the      *)
(* coordinate-index scan use the same test.                                *)
C23_NumericBearingReach ==
    ppc = "primary" =>
        /\ \A r \in BodyRowsOf :
              NumericBearing(df_raw, type_col_idx, r) <=> NumericWithin(r, SpecScanReach)
        /\ \A k \in 1..Len(classified) :
              /\ UnderSection(k) /\ classified[k].cls \notin {"blank", "skip"}
              /\ NumericWithin(classified[k].row, SpecScanReach)
              => classified[k].cls \in DataClasses

\* a 'Turner Syndrome' row whose only number stands at key column + 6 was
\* walked under a section and read as a section header, not as a data row
C23_NumberAtSixthCellMissed ==
    /\ ppc = "primary"
    /\ \E k \in 1..Len(classified) :
          /\ UnderSection(k)
          /\ LabelAt(classified[k].row) = "Turner Syndrome"
          /\ type_col_idx + 6 < NCols(df_raw)
          /\ _is_numeric_cell(iloc(df_raw, classified[k].row, type_col_idx + 6))
          /\ \A j \in (type_col_idx + 1)..(NCols(df_raw) - 1) :
                j # type_col_idx + 6 => isna(iloc(df_raw, classified[k].row, j))
          /\ classified[k].cls = "section"
          /\ classified[k].row \notin RecordSources(rows)

\* what the code does: the test reads key column + 1 up to key column + 5,
\* in the extractor and in the coordinate index alike
C23_NumericBearingReachOfCode ==
    ppc = "primary" =>
        \A r \in BodyRowsOf :
            NumericBearing(df_raw, type_col_idx, r) <=> NumericWithin(r, NumericScanEnd - 1)

---------------------------------------------------------------------------
(* Properties of the header search                                         *)

\* the cells the search may read, and those among them that qualify: the
\* lowercased trimmed text holds a keyword and is shorter than 50 characters
SearchWindow == (0..(Min(25, NRows(df_raw)) - 1)) \X (0..(Min(10, NCols(df_raw)) - 1))
Qualifies(p) ==
    LET cell == Lower(Strip(PyStr(iloc(df_raw, p[1], p[2])))) IN
    /\ \E kw \in {"type", "drug", "product", "treatment"} : Contains(kw, cell)
    /\ Len(cell) < 50
RowMajorBefore(p, q) == p[1] < q[1] \/ (p[1] = q[1] /\ p[2] < q[2])

\* the search is over and found a header / found none
HeaderFound == ppc \in {"primary", "fallback", "finish"} \/ (ppc = "done" /\ i > 0)
HeaderNotFound == ppc = "done" /\ i = 0 /\ ~TooSmall(df_raw)

(* C24: the header search returns the position of the first cell, in row-  *)
(* major order over the first 25 rows and first 10 columns, whose          *)
(* lowercased trimmed text contains one of 'type', 'drug', 'product',      *)
(* 'treatment' and is shorter than 50 characters; no cell earlier in that  *)
(* order qualifies, cells outside the window are never chosen, and the     *)
(* coordinate index finds the same position.                               *)
C24_FirstQualifyingCell ==
    /\ HeaderFound =>
          /\ <<header_row, type_col_idx>> \in SearchWindow
          /\ Qualifies(<<header_row, type_col_idx>>)
          /\ \A p \in SearchWindow : RowMajorBefore(p, <<header_row, type_col_idx>>) => ~Qualifies(p)
          /\ LET m == get_details_sheet_row_col_map(df_raw) IN
             m.header_row = header_row /\ m.type_col_idx = type_col_idx
    /\ HeaderNotFound => \A p \in SearchWindow : ~Qualifies(p)

\* a header was found right of and above a later qualifying cell, or below
\* a long sentence that holds a keyword, or left of the window's edge beyond
\* which a keyword stands
C24_HeaderPastDecoys ==
    /\ HeaderFound
    /\ \/ \E p \in SearchWindow :
             Qualifies(p) /\ p[1] > header_row /\ p[2] < type_col_idx
       \/ \E p \in SearchWindow :
             /\ RowMajorBefore(p, <<header_row, type_col_idx>>)
             /\ Contains("drug", Lower(PyStr(iloc(df_raw, p[1], p[2]))))
       \/ /\ NCols(df_raw) > 10 /\ header_row > 0
          /\ Contains("type", Lower(PyStr(iloc(df_raw, 0, 10))))

\* no header was found although a keyword stands outside the window
C24_KeywordOutsideWindow ==
    /\ HeaderNotFound
    /\ \E r \in 0..(NRows(df_raw) - 1) : \E j \in 0..(NCols(df_raw) - 1) :
          /\ r >= 25 \/ j >= 10
          /\ Contains("type", Lower(PyStr(iloc(df_raw, r, j))))

---------------------------------------------------------------------------
(* Properties of the section label in the fallback pass                    *)

\* the fallback pass ran or is running
InFallback == ppc \in {"fallback", "finish"} /\ current_indication_fb # None

\* sheet row r replaces the section label of the fallback pass: it has a
\* label outside the skip set and no numeric cell right of column 0, and
\* the label is no number, holds no 'patients', does not start with 'Total'
ReplacesFallbackSection(r) ==
    LET c == iloc(df_raw, r, 0)
        label == Strip(PyStr(c))
    IN /\ notna(c) /\ label # "" /\ Lower(label) \notin skip_type_values
       /\ \A j \in 1..(NCols(df_raw) - 1) : ~_is_numeric_cell(iloc(df_raw, r, j))
       /\ ~_is_numeric_cell(c)
       /\ ~Contains("patients", Lower(label))
       /\ ~StartsWith(label, "Total")

\* the label the fallback pass holds when it reaches sheet row r
FallbackSectionAt(r) ==
    LET above == { q \in 1..(r - 1) : ReplacesFallbackSection(q) } IN
    IF above = {} THEN "Details"
    ELSE Strip(PyStr(iloc(df_raw, CHOOSE q \in above : \A p \in above : p <= q, 0)))

\* C25 as stated: every record emitted by the fallback pass carries the
\* constant placeholder 'Details'; no row changes the section label the
\* fallback pass attributes to later rows
C25_FallbackSectionConstant ==
    InFallback =>
        /\ current_indication_fb = "Details"
        /\ \A a \in 1..Len(rows) : rows[a].key[1] = "Details"

(* C25 as amended: the fallback pass starts with the placeholder section   *)
(* label 'Details'; a row with a label outside the skip set and no numeric *)
(* cell right of column 0, whose label is no number, holds no 'patients'   *)
(* and does not start with 'Total', replaces the label with its own; every *)
(* other row leaves it unchanged, and every record of the fallback pass    *)
(* carries the label of the nearest replacing row above it, 'Details'      *)
(* when there is none.                                                     *)
C25_FallbackSectionLifecycle ==
    InFallback =>
        /\ ppc = "fallback" => current_indication_fb = FallbackSectionAt(i)
        /\ \A k \in 1..Len(classified) :
              classified[k].pass = "fallback"
              => classified[k].sec = FallbackSectionAt(classified[k].row)
        /\ \A a \in 1..Len(rows) : rows[a].key[1] = FallbackSectionAt(rows[a].src)

\* the fallback pass is over and gave a record under 'Details' and, below a
\* row without numbers, a record under that row's label
C25_PlaceholderAndImplicitSection ==
    /\ ppc = "finish" /\ FallbackRan
    /\ \E a, b \in 1..Len(rows) :
          /\ rows[a].key[1] = "Details"
          /\ rows[b].key[1] # "Details"
          /\ rows[a].src < rows[b].src
          /\ \E q \in (rows[a].src + 1)..(rows[b].src - 1) :
                rows[b].key[1] = Strip(PyStr(iloc(df_raw, q, 0)))

---------------------------------------------------------------------------
(* Properties of the cells the write-back resolves                         *)

\* the sheet key sk may stand for the record key: the same name and a
\* section equal to, containing or contained in the record's section
KeyMayStandFor(sk, key) ==
    /\ Strip(sk[2]) = Strip(key[2])
    /\ \/ Strip(sk[1]) = Strip(key[1])
       \/ Contains(Strip(sk[1]), Strip(key[1]))
       \/ Contains(Strip(key[1]), Strip(sk[1]))

\* the index entry at position pos of details_df may be written to the
\* sheet cell (r, c)
MayWrite(pos, r, c) ==
    LET key == details_df.rows[pos].key IN
    /\ \E n \in 1..Len(row_map) :
          /\ row_map[n].v = r
          /\ KeyMayStandFor(row_map[n].k, key)
          /\ (\E m \in 1..Len(row_map) : row_map[m].k = key) => row_map[n].k = key
    /\ \E m \in 1..Len(col_map) : \E j \in 1..Len(details_df.cols) :
          /\ col_map[m].v = c
          /\ _norm(col_map[m].k) = _norm(details_df.cols[j])

\* the cells of the workbook in memory that differ from the target file
CellsChanged ==
    { p \in (0..(NRows(wb) - 1)) \X (0..(NCols(wb) - 1)) :
        iloc(wb, p[1], p[2]) # iloc(target0.grid, p[1], p[2]) }

(* C26: fill_details_sheet_to_excel writes a record's value only into a   *)
(* cell whose row is mapped from a sheet key with the same name and a      *)
(* section label equal to, containing or contained in the record's section *)
(* label, and whose column label equals the record's column name after     *)
(* whitespace normalization; an exact (section, name) key of the sheet is  *)
(* used in preference to any fuzzy candidate.                              *)
C26_WritesOnlyResolvedCells ==
    fpc \in {"loop", "mkstemp", "save", "saving", "replace", "return", "returned"} =>
        /\ \A pos \in 1..(key_pos - 1) :
              \A p \in CellsOfEntry(details_df, pos, row_map, col_map) : MayWrite(pos, p[1], p[2])
        /\ \A p \in CellsChanged : \E pos \in 1..(key_pos - 1) : MayWrite(pos, p[1], p[2])

\* the call returned after writing a value under a key the sheet holds only
\* with a longer section label
C26_FuzzyKeyWritten ==
    /\ fpc = "returned"
    /\ \E pos \in 1..Len(details_df.rows) :
          LET key == details_df.rows[pos].key IN
          /\ ~DictHas(row_map, key)
          /\ \E p \in CellsOfEntry(details_df, pos, row_map, col_map) :
                /\ p \in CellsChanged
                /\ \E n \in 1..Len(row_map) :
                      /\ row_map[n].v = p[1]
                      /\ row_map[n].k[1] # key[1]
                      /\ Contains(key[1], row_map[n].k[1])

---------------------------------------------------------------------------
(* Properties of the coordinate index against the extraction               *)

\* the coordinate index of the sheet being extracted
IndexOfSheet == get_details_sheet_row_col_map(df_raw)

\* the keys of RowMap are the keys of the extracted table, each mapped to
\* the sheet row its record was read from
RowMapMatchesRecords ==
    /\ DictKeys(IndexOfSheet.row_map) = IndexKeys(result)
    /\ \A k \in 1..Len(result.rows) :
          DictGet(IndexOfSheet.row_map, result.rows[k].key) = result.rows[k].src

\* the labels of ColMap are the table's columns, each mapped to a sheet
\* column that carries the label in the header row
ColMapMatchesColumns ==
    /\ DictKeys(IndexOfSheet.col_map) = SeqToSet(result.cols)
    /\ \A n \in 1..Len(IndexOfSheet.col_map) :
          HeaderLabel(df_raw, HeaderRowUsed, IndexOfSheet.col_map[n].v) = IndexOfSheet.col_map[n].k

(* C27: for any grid, the keys of the RowMap built by                      *)
(* get_details_sheet_row_col_map are exactly the (section, canonical name) *)
(* keys of the Record table parse_details_sheet extracts from the same     *)
(* grid, each mapped to the physical row of that record's data row, and    *)
(* the ColMap labels are exactly the table's metric columns mapped to      *)
(* their physical columns.                                                 *)
C27_IndexMatchesExtraction ==
    ppc = "done" => RowMapMatchesRecords /\ ColMapMatchesColumns

\* the extraction returned records of the fallback pass and the coordinate
\* index of the same sheet has no row
C27_FallbackRecordsUnindexed ==
    /\ ppc = "done" /\ FallbackRan
    /\ Len(result.rows) > 0
    /\ \A k \in 1..Len(result.rows) : result.rows[k].key[1] = "Details"
    /\ IndexOfSheet.row_map = <<>>
    /\ IndexOfSheet.col_map # <<>>

\* the part of C27 that holds: the records came from the primary pass and
\* no key recurs among them
C27_IndexMatchesPrimaryExtraction ==
    ppc = "done" /\ ~FallbackRan /\ Len(result.rows) > 0 /\ ~KeysRepeat(result)
    => RowMapMatchesRecords /\ ColMapMatchesColumns

---------------------------------------------------------------------------
(* Properties of the column pairing of compare_details                     *)

\* the known old-label / new-label pairs with both labels present
KnownPresent ==
    { p \in { <<Total12, Total6>>,
              <<"Newly diagnosed patients received drug treatments in the last 12 months",
                "Newly diagnosed patients received drug treatments in the last 6 months">>,
              <<"Follow up patients and received drug treatments in the last 12 months",
                "Follow up patients and received drug treatments in the last 6 months">> } :
        p[1] \in SeqToSet(old_df.cols) /\ p[2] \in SeqToSet(new_df.cols) }

\* the pairs by position: the i-th column of each table, i up to the
\* smallest of the two column counts and 4
PositionalExpected ==
    { <<old_df.cols[n], new_df.cols[n]>> :
        n \in 1..Min(4, Min(Len(old_df.cols), Len(new_df.cols))) }

ExpectedPairs == IF KnownPresent # {} THEN KnownPresent ELSE PositionalExpected

\* the name compare_details gives the metric of an old column
MetricName(old_col) ==
    Replace(Replace(Prefix(old_col, 35), "12 months", "12mo"), "6 months", "6mo")

FieldsOf(pairs) ==
    UNION { { MetricName(p[1]) \o "_old", MetricName(p[1]) \o "_new",
              MetricName(p[1]) \o "_change" } : p \in pairs }

\* compare_details returned a table with rows
DetailsCompared == cpc = "details_done" /\ ~DetailsReturnsEmpty /\ UnionKeys # {}

(* C28: positional pairing is used only when no known old-label/new-label  *)
(* pair has both labels present; it then pairs the i-th numeric column of  *)
(* the old table with the i-th numeric column of the new one for i below   *)
(* min(number of numeric old columns, number of numeric new columns, 4):   *)
(* at most 4 positional pairs, and columns matched by the lookup table are *)
(* never also paired positionally.                                         *)
C28_KnownElsePositional ==
    DetailsCompared =>
        /\ SeqToSet(comparison.df.cols) = FieldsOf(ExpectedPairs)
        /\ KnownPresent = {} => Len(comparison.df.cols) <= 3 * 4
        /\ \A k \in 1..Len(comparison.df.rows) : \A p \in ExpectedPairs :
              LET row == comparison.df.rows[k] IN
              /\ \A q \in ExpectedPairs : MetricName(q[1]) = MetricName(p[1]) => q = p
              /\ ~IsSeriesAt(old_df, row.key) /\ ~IsSeriesAt(new_df, row.key)
              => /\ row.vals[MetricName(p[1]) \o "_old"] =
                       Num(IF row.key \in IndexKeys(old_df)
                           THEN ZeroIfNaN(ScalarAt(old_df, row.key, p[1])) ELSE 0)
                 /\ row.vals[MetricName(p[1]) \o "_new"] =
                       Num(IF row.key \in IndexKeys(new_df)
                           THEN ZeroIfNaN(ScalarAt(new_df, row.key, p[2])) ELSE 0)

\* two tables of five columns each were compared and four metrics came out
C28_FifthColumnUnpaired ==
    /\ DetailsCompared
    /\ old_df.cols = FiveCols /\ new_df.cols = FiveCols
    /\ Len(old_df.rows) > 0 /\ Len(new_df.rows) > 0
    /\ Len(comparison.df.cols) = 12
    /\ "C4_old" \in SeqToSet(comparison.df.cols)
    /\ "C5_old" \notin SeqToSet(comparison.df.cols)

\* a known pair was present next to another column on each side and the
\* other columns were left unpaired
C28_KnownPairAlone ==
    /\ DetailsCompared
    /\ old_df.cols = <<"M1", Total12>> /\ new_df.cols = <<Total6, "M1">>
    /\ Len(comparison.df.cols) = 3
    /\ "M1_old" \notin SeqToSet(comparison.df.cols)

---------------------------------------------------------------------------
(* Properties of the metric fields of a comparison row                     *)

\* a comparison table with rows was returned
Compared ==
    /\ CmpDone /\ ~comparison.raised /\ Len(comparison.df.rows) > 0

\* the row holds, in the fields of pair j, the values of that pair's columns
HoldsOwnValues(row, j) ==
    LET m == MetricOf(PairsUsed[j][1]) IN
    /\ HasMetric(row, m)
    /\ row.key \in IndexKeys(old_df) /\ ~IsSeriesAt(old_df, row.key) /\ ~IsSeriesAt(new_df, row.key)
          => row.vals[m \o "_old"] = Num(ZeroIfNaN(ScalarAt(old_df, row.key, PairsUsed[j][1])))
    /\ row.key \in IndexKeys(new_df) /\ ~IsSeriesAt(old_df, row.key) /\ ~IsSeriesAt(new_df, row.key)
          => row.vals[m \o "_new"] = Num(ZeroIfNaN(ScalarAt(new_df, row.key, PairsUsed[j][2])))

\* no two of the pairs used get the same metric name
MetricNamesDistinct ==
    \A a, b \in 1..Len(PairsUsed) :
        a # b => MetricOf(PairsUsed[a][1]) # MetricOf(PairsUsed[b][1])

(* C29: each matched metric pair has its own fields.  For every key the    *)
(* comparison row holds a separate (_old, _new, _change) triple for each   *)
(* matched metric pair: k matched pairs yield 3k metric fields and no      *)
(* pair's values overwrite another pair's values.                          *)
C29_OwnFieldsPerPair ==
    Compared =>
        \A k \in 1..Len(comparison.df.rows) :
            /\ Len(comparison.df.rows[k].cols) = 3 * Len(PairsUsed)
            /\ \A j \in 1..Len(PairsUsed) : HoldsOwnValues(comparison.df.rows[k], j)

\* compare_details paired two old columns whose names share their first 35
\* characters: two pairs, three fields, the first pair's old value lost
C29_TwoPairsOneTriple ==
    /\ Compared /\ cpc = "details_done"
    /\ Len(PairsUsed) = 2
    /\ PairsUsed[1][1] = Total12 /\ PairsUsed[2][1] = Total6
    /\ Len(comparison.df.cols) = 3
    /\ \E k \in 1..Len(comparison.df.rows) :
          LET row == comparison.df.rows[k] IN
          /\ row.key \in IndexKeys(old_df) /\ ~IsSeriesAt(old_df, row.key)
          /\ ~IsSeriesAt(new_df, row.key)
          /\ row.vals["Total patients treated in the last _old"]
                # Num(ZeroIfNaN(ScalarAt(old_df, row.key, Total12)))

\* the part of C29 that holds: pairs whose metric names differ
C29_OwnFieldsForDistinctNames ==
    Compared /\ MetricNamesDistinct =>
        \A k \in 1..Len(comparison.df.rows) :
            /\ Len(comparison.df.rows[k].cols) = 3 * Len(PairsUsed)
            /\ \A j \in 1..Len(PairsUsed) : HoldsOwnValues(comparison.df.rows[k], j)

---------------------------------------------------------------------------
(* Properties of a failure while the workbook is persisted                 *)

PersistFailures == {"wb.save", "os.replace"}

\* the call ended with the failure of the save or of the replace
PersistFailed == fpc = "raised" /\ outcome.msg \in PersistFailures

\* from the failure on: no second attempt, the failure held by the handler
\* is the one raised, the target is never written
HandlerStep ==
    fpc = "cleanup" =>
        /\ outcome.kind = "caught" /\ outcome.msg \in PersistFailures
        /\ fpc' \in {"cleanup", "raised", "crashed"}
        /\ fpc' = "raised" => outcome' = Raised("OSError", outcome.msg)
        /\ target' = target
        /\ tmp_file' \in {tmp_file, Absent}

\* C30 as stated: if saving the temporary file or replacing the target
\* raises, the call makes no retry, removes the temporary file if it
\* exists and re-raises the same failure; the target keeps its previous
\* content and no count is returned
C30_FailureRemovesTempFile ==
    PersistFailed =>
        /\ tmp_file = Absent
        /\ target = target0
        /\ outcome.kind = "OSError"

(* C30 as amended: if saving the temporary file or replacing the target    *)
(* raises, fill_details_sheet_to_excel makes no retry, tries once to       *)
(* remove the temporary file if it exists -- a failure of that removal is  *)
(* passed over and leaves the file behind -- and re-raises the same        *)
(* failure to the caller; the target file keeps its previous content and   *)
(* no count is returned.                                                   *)
C30_FailurePropagates ==
    /\ [](PersistFailed =>
            /\ target = target0
            /\ outcome.kind = "OSError" /\ outcome.value = 0
            /\ tmp_file \in {Absent, EmptyFile, PartialFile, Complete(wb)})
    /\ [][HandlerStep]_vars

\* the replace failed after the whole workbook was saved: the failure of
\* os.replace reached the caller, the temporary file is gone, the target is
\* as before and differs from the new workbook
C30_ReplaceFailureRaised ==
    /\ fpc = "raised"
    /\ outcome = Raised("OSError", "os.replace")
    /\ tmp_file = Absent
    /\ target = target0
    /\ target # Complete(wb)

\* the removal failed too: the temporary file was left behind
C30_TempFileLeftBehind ==
    /\ PersistFailed
    /\ tmp_file # Absent

====
